---------------------------- MODULE Spec2Model ----------------------------
(***************************************************************************)
(* A model of the rule-based core of the CITADEL frontend:                 *)
(*   - classifyTicket      (SupportTickets, src/unnamed/part_002)          *)
(*   - categorizeExpense   (ExpenseCategorizer.jsx)                        *)
(*   - the ExpenseCategorizer component: its expenses list and the two     *)
(*     memoised values derived from it, categorized and anomalies, and     *)
(*     its CSV upload (parseCSV, handleFileUpload);                        *)
(*   - AuthProvider (AuthContext.jsx), the routes of App with their        *)
(*     ProtectedRoute, and the Login page;                                 *)
(*   - RAGChatbot (ProgressBar.jsx): handleSend, the backend's reply and   *)
(*     the timer that resets aiStatus;                                     *)
(*   - SupportTickets (part_002): handleSubmit and the tickets list;       *)
(*   - FakeNewsDetector.jsx: analyzeText, handleAnalyze and recentChecks.  *)
(*                                                                         *)
(* Text is a sequence of one-character strings, so that toLowerCase and    *)
(* String.prototype.includes are computed character by character.          *)
(* Percentages are integers: confidences are computed in hundredths of a   *)
(* percent and rounded by toFixed(1) to tenths of a percent, so the string *)
(* "72.5" of the code is the integer 725 here.                             *)
(***************************************************************************)
EXTENDS Integers, Sequences, FiniteSets, TLC

VARIABLES
    rng,          \* position of Math.random() in its stream
    clInput,      \* arguments of the classifier call under study
    clResult,     \* the latest call on clInput: its draw and what it returned
    clEarlier,    \* an earlier call on the same clInput (or NoCall)
    expenses,     \* useState([]) of ExpenseCategorizer
    categorized,  \* useMemo over [expenses]
    anomalies,    \* useMemo over [categorized]
    exLastOp,     \* the handler that produced the current component state
    loading,      \* useState(false) of ExpenseCategorizer
    processingStep, \* useState('') of ExpenseCategorizer
    uploads,      \* the calls of handleFileUpload: their file and position
    user,         \* useState(null) of AuthProvider
    authLoading,  \* useState(true) of AuthProvider: loading
    localStorage, \* window.localStorage
    location,     \* the address of the router: pathname and role parameter
    shown,        \* the element the matching route renders
    clock,        \* Date.now()
    lastCall,     \* the latest call of login, signup or logout
    messages,     \* useState([...]) of RAGChatbot
    input,        \* useState('') of RAGChatbot
    chatLoading,  \* useState(false) of RAGChatbot: loading
    streamingText, \* useState('') of RAGChatbot
    aiStatus,     \* useState('ONLINE') of RAGChatbot
    sessionId,    \* useState(null) of RAGChatbot
    sends,        \* the calls of handleSend that passed its guard
    resetTimers,  \* the pending timers of line 116, oldest first
    statusFrom,   \* the call of handleSend that set aiStatus, 0 for none
    tickets,      \* useState([]) of SupportTickets
    ticketLoading, \* useState(false) of SupportTickets: loading
    ticketStep,   \* useState('') of SupportTickets: processingStep
    submission,   \* the call of handleSubmit of SupportTickets in progress
    recentChecks, \* useState([]) of FakeNewsDetector
    newsResult,   \* useState(null) of FakeNewsDetector: result
    newsLoading,  \* useState(false) of FakeNewsDetector: loading
    newsStep,     \* useState('') of FakeNewsDetector: processingStep
    analyzing,    \* the call of handleAnalyze in progress
    completed     \* every entry handleAnalyze has put into recentChecks, oldest first

clVars == <<clInput, clResult, clEarlier>>
exVars == <<expenses, categorized, anomalies, exLastOp>>
upVars == <<loading, processingStep, uploads>>
auVars == <<user, authLoading, localStorage, location, shown, clock, lastCall>>
chVars == <<messages, input, chatLoading, streamingText, aiStatus, sessionId,
            sends, resetTimers, statusFrom>>
tkVars == <<tickets, ticketLoading, ticketStep, submission>>
nwVars == <<recentChecks, newsResult, newsLoading, newsStep, analyzing, completed>>
pgVars == <<chVars, tkVars, nwVars>>
vars == <<rng, clVars, exVars, upVars, auVars, pgVars>>

---------------------------------------------------------------------------
(* Bounds of the model *)

\* Words per generated description.
MaxWords == 2
\* Math.random() is sampled at JitterSamples + 1 evenly spaced points of [0, 1).
JitterSamples == 2
\* Longest expenses list.
MaxExpenses == 7
\* Calls of handleFileUpload in a run.
MaxUploads == 2
\* Calls of login and signup in a run.
MaxLogins == 2
\* Queries sent to the chatbot in a run.
MaxSends == 3
\* Tickets submitted in a run.
MaxTickets == 4
\* Analyses of FakeNewsDetector in a run.
MaxAnalyses == 6
\* Largest numerator of a multiplier k = kNum / kDen tried in place of the 2
\* of the outlier rule (kDen is 1 or 2).
MaxK == 3

---------------------------------------------------------------------------
(* Strings *)

UpperCase == <<"A","B","C","D","E","F","G","H","I","J","K","L","M","N","O","P","Q","R","S","T","U","V","W","X","Y","Z">>
LowerCase == <<"a","b","c","d","e","f","g","h","i","j","k","l","m","n","o","p","q","r","s","t","u","v","w","x","y","z">>

toLowerCaseChar(c) ==
    IF \E i \in 1..Len(UpperCase) : UpperCase[i] = c
    THEN LowerCase[CHOOSE i \in 1..Len(UpperCase) : UpperCase[i] = c]
    ELSE c

toLowerCase(s) == [i \in 1..Len(s) |-> toLowerCaseChar(s[i])]

\* text.includes(k): k occurs in text as a contiguous substring.
includes(text, k) ==
    \E i \in 0..(Len(text) - Len(k)) : SubSeq(text, i + 1, i + Len(k)) = k

\* keywords.filter(k => text.includes(k)).length
countHits(keywords, text) ==
    Cardinality({i \in 1..Len(keywords) : includes(text, keywords[i])})

Space == <<" ">>

\* The words of ws joined by single spaces.
RECURSIVE Join(_)
Join(ws) ==
    IF ws = <<>> THEN <<>>
    ELSE IF Len(ws) = 1 THEN ws[1]
    ELSE ws[1] \o Space \o Join(Tail(ws))

\* All sequences of at most n elements of S.
SeqsUpTo(S, n) == UNION {[1..k -> S] : k \in 0..n}

---------------------------------------------------------------------------
(* Math.random() *)

\* Math.random() * 10 lies in [0, 10); in hundredths it is one of 0..999.
\* The stream is sampled at JitterSamples + 1 points from 0 to 999, the last
\* of which (9.99) is rounded up by toFixed(1).
randomTimes10(r) == ((r % (JitterSamples + 1)) * 999) \div JitterSamples

RngStates == 0..JitterSamples

nextRng(r, draws) == (r + draws) % (JitterSamples + 1)

\* Number.prototype.toFixed(1) of a value in hundredths: the nearest tenth.
toFixed1(v) == (v + 5) \div 10

min(a, b) == IF a < b THEN a ELSE b

---------------------------------------------------------------------------
(* classifyTicket *)

categories ==
  <<
    [category |-> "Infrastructure", priority |-> "high", dept |-> "Public Works",
     keywords |-> <<<<"r","o","a","d">>, <<"b","r","i","d","g","e">>, <<"b","u","i","l","d","i","n","g">>, <<"p","o","t","h","o","l","e">>, <<"c","o","n","s","t","r","u","c","t","i","o","n">>, <<"r","e","p","a","i","r">>, <<"m","a","i","n","t","e","n","a","n","c","e">>, <<"b","r","o","k","e","n">>, <<"d","a","m","a","g","e">>>>],
    [category |-> "Water Supply", priority |-> "critical", dept |-> "Water Board",
     keywords |-> <<<<"w","a","t","e","r">>, <<"p","i","p","e">>, <<"l","e","a","k","a","g","e">>, <<"s","u","p","p","l","y">>, <<"s","e","w","a","g","e">>, <<"d","r","a","i","n","a","g","e">>, <<"f","l","o","o","d">>, <<"c","o","n","t","a","m","i","n","a","t","i","o","n">>>>],
    [category |-> "Electricity", priority |-> "high", dept |-> "Power Distribution",
     keywords |-> <<<<"p","o","w","e","r">>, <<"e","l","e","c","t","r","i","c","i","t","y">>, <<"o","u","t","a","g","e">>, <<"t","r","a","n","s","f","o","r","m","e","r">>, <<"w","i","r","e">>, <<"v","o","l","t","a","g","e">>, <<"e","l","e","c","t","r","i","c">>, <<"l","i","g","h","t">>, <<"p","o","l","e">>>>],
    [category |-> "Sanitation", priority |-> "medium", dept |-> "Municipal Sanitation",
     keywords |-> <<<<"g","a","r","b","a","g","e">>, <<"w","a","s","t","e">>, <<"c","l","e","a","n","i","n","g">>, <<"h","y","g","i","e","n","e">>, <<"t","r","a","s","h">>, <<"d","u","m","p">>, <<"s","a","n","i","t","a","t","i","o","n">>, <<"s","m","e","l","l">>>>],
    [category |-> "Traffic", priority |-> "high", dept |-> "Traffic Police",
     keywords |-> <<<<"t","r","a","f","f","i","c">>, <<"s","i","g","n","a","l">>, <<"p","a","r","k","i","n","g">>, <<"a","c","c","i","d","e","n","t">>, <<"s","p","e","e","d">>, <<"j","a","m">>, <<"c","o","n","g","e","s","t","i","o","n">>, <<"v","e","h","i","c","l","e">>>>],
    [category |-> "Public Safety", priority |-> "critical", dept |-> "Law Enforcement",
     keywords |-> <<<<"s","a","f","e","t","y">>, <<"c","r","i","m","e">>, <<"t","h","e","f","t">>, <<"h","a","r","a","s","s","m","e","n","t">>, <<"v","i","o","l","e","n","c","e">>, <<"p","o","l","i","c","e">>, <<"s","e","c","u","r","i","t","y">>, <<"e","m","e","r","g","e","n","c","y">>>>],
    [category |-> "Education", priority |-> "medium", dept |-> "Education Board",
     keywords |-> <<<<"s","c","h","o","o","l">>, <<"e","d","u","c","a","t","i","o","n">>, <<"t","e","a","c","h","e","r">>, <<"s","t","u","d","e","n","t">>, <<"c","o","l","l","e","g","e">>, <<"a","d","m","i","s","s","i","o","n">>, <<"s","c","h","o","l","a","r","s","h","i","p">>>>],
    [category |-> "Healthcare", priority |-> "high", dept |-> "Health Department",
     keywords |-> <<<<"h","o","s","p","i","t","a","l">>, <<"h","e","a","l","t","h">>, <<"m","e","d","i","c","i","n","e">>, <<"d","o","c","t","o","r">>, <<"c","l","i","n","i","c">>, <<"v","a","c","c","i","n","a","t","i","o","n">>, <<"d","i","s","e","a","s","e">>>>],
    [category |-> "General", priority |-> "low", dept |-> "General Administration",
     keywords |-> <<>>]
  >>

sentimentWords ==
    [positive |-> <<<<"t","h","a","n","k">>, <<"g","o","o","d">>, <<"g","r","e","a","t">>, <<"e","x","c","e","l","l","e","n","t">>, <<"h","a","p","p","y">>, <<"a","p","p","r","e","c","i","a","t","e">>, <<"h","e","l","p","f","u","l">>>>,
     negative |-> <<<<"b","a","d">>, <<"t","e","r","r","i","b","l","e">>, <<"w","o","r","s","t">>, <<"a","n","g","r","y">>, <<"f","r","u","s","t","r","a","t">>, <<"d","i","s","a","p","p","o","i","n","t">>, <<"h","o","r","r","i","b","l","e">>, <<"u","r","g","e","n","t">>, <<"c","o","m","p","l","a">>>>]

\* A variant that starts the search at bestScore = 1.
ticketStartAtOne == [category |-> "General", score |-> 1]

\* let bestCategory = 'General'; let bestScore = 0;
ticketStart == [category |-> "General", score |-> 0]

\* if (score > bestScore) { bestScore = score; bestCategory = cat; }
ticketKeep(best, cat, score) ==
    IF score > best.score THEN [category |-> cat, score |-> score] ELSE best

\* Object.entries(categories).forEach(...), after its first n entries.
RECURSIVE ticketBest(_, _)
ticketBest(text, n) ==
    IF n = 0 THEN ticketStart
    ELSE ticketKeep(ticketBest(text, n - 1), categories[n].category,
                    countHits(categories[n].keywords, text))

\* `${subject} ${description}`.toLowerCase()
ticketText(subject, description) == toLowerCase(subject \o Space \o description)

\* A variant that reports Positive when the two counts are equal.
ticketSentimentFavourable(text) ==
    IF countHits(sentimentWords.positive, text) >= countHits(sentimentWords.negative, text)
    THEN "Positive" ELSE "Negative"

ticketSentiment(text) ==
    LET posCount == countHits(sentimentWords.positive, text)
        negCount == countHits(sentimentWords.negative, text)
    IN  IF posCount > negCount THEN "Positive"
        ELSE IF negCount > posCount THEN "Negative" ELSE "Neutral"

\* categories[bestCategory]
catInfo(bestCategory) ==
    categories[CHOOSE i \in 1..Len(categories) : categories[i].category = bestCategory]

\* A variant without the Math.min(95, ...) ceiling.
ticketConfidenceUnclamped(bestScore, r) ==
    toFixed1(6000 + bestScore * 1200 + randomTimes10(r))

\* A variant without the increment per matched keyword.
ticketConfidenceFlat(bestScore, r) ==
    toFixed1(min(9500, 6000 + randomTimes10(r)))

\* Math.min(95, 60 + bestScore * 12 + Math.random() * 10).toFixed(1)
ticketConfidence(bestScore, r) ==
    toFixed1(min(9500, 6000 + bestScore * 1200 + randomTimes10(r)))

ticketEstimatedResponse(priority) ==
    IF priority = "critical" THEN "2-4 hours"
    ELSE IF priority = "high" THEN "24-48 hours" ELSE "3-5 days"

\* The part of classifyTicket that does not read Math.random().
ticketAnalysis(subject, description) ==
    LET text == ticketText(subject, description)
    IN  [best      |-> ticketBest(text, Len(categories)),
         sentiment |-> ticketSentiment(text)]

\* A variant that raises the priority of a ticket of negative sentiment.
ticketResultBySentiment(analysis, r) ==
    LET info == catInfo(analysis.best.category)
        priority == IF analysis.sentiment = "Negative" THEN "critical" ELSE info.priority
    IN  [category           |-> analysis.best.category,
         priority           |-> priority,
         department         |-> info.dept,
         sentiment          |-> analysis.sentiment,
         confidence         |-> ticketConfidence(analysis.best.score, r),
         estimated_response |-> ticketEstimatedResponse(priority)]

\* The object classifyTicket returns, with r the position of Math.random().
ticketResult(analysis, r) ==
    LET info == catInfo(analysis.best.category)
    IN  [category           |-> analysis.best.category,
         priority           |-> info.priority,
         department         |-> info.dept,
         sentiment          |-> analysis.sentiment,
         confidence         |-> ticketConfidence(analysis.best.score, r),
         estimated_response |-> ticketEstimatedResponse(info.priority)]

\* classifyTicket(subject, description)
classifyTicket(subject, description, r) ==
    ticketResult(ticketAnalysis(subject, description), r)

---------------------------------------------------------------------------
(* categorizeExpense *)

categoryKeywords ==
  <<
    [category |-> "Food & Dining",
     keywords |-> <<<<"r","e","s","t","a","u","r","a","n","t">>, <<"f","o","o","d">>, <<"p","i","z","z","a">>, <<"b","u","r","g","e","r">>, <<"c","o","f","f","e","e">>, <<"c","a","f","e">>, <<"l","u","n","c","h">>, <<"d","i","n","n","e","r">>, <<"b","r","e","a","k","f","a","s","t">>, <<"e","a","t">>, <<"d","i","n","e">>, <<"s","w","i","g","g","y">>, <<"z","o","m","a","t","o">>, <<"u","b","e","r"," ","e","a","t","s">>, <<"m","e","a","l">>, <<"s","n","a","c","k">>, <<"d","r","i","n","k">>, <<"b","a","k","e","r","y">>, <<"i","c","e"," ","c","r","e","a","m">>>>],
    [category |-> "Transportation",
     keywords |-> <<<<"u","b","e","r">>, <<"o","l","a">>, <<"t","a","x","i">>, <<"f","u","e","l">>, <<"p","e","t","r","o","l">>, <<"d","i","e","s","e","l">>, <<"g","a","s">>, <<"m","e","t","r","o">>, <<"b","u","s">>, <<"t","r","a","i","n">>, <<"f","l","i","g","h","t">>, <<"p","a","r","k","i","n","g">>, <<"t","o","l","l">>, <<"a","u","t","o">>, <<"c","a","b">>, <<"c","o","m","m","u","t","e">>, <<"t","r","a","v","e","l">>>>],
    [category |-> "Shopping",
     keywords |-> <<<<"a","m","a","z","o","n">>, <<"f","l","i","p","k","a","r","t">>, <<"m","a","l","l">>, <<"s","t","o","r","e">>, <<"s","h","o","p">>, <<"c","l","o","t","h","i","n","g">>, <<"s","h","o","e","s">>, <<"e","l","e","c","t","r","o","n","i","c">>, <<"g","a","d","g","e","t">>, <<"f","a","s","h","i","o","n">>, <<"r","e","t","a","i","l">>, <<"m","a","r","k","e","t">>, <<"p","u","r","c","h","a","s","e">>, <<"b","u","y">>>>],
    [category |-> "Utilities",
     keywords |-> <<<<"e","l","e","c","t","r","i","c","i","t","y">>, <<"w","a","t","e","r">>, <<"g","a","s">>, <<"i","n","t","e","r","n","e","t">>, <<"w","i","f","i">>, <<"p","h","o","n","e">>, <<"m","o","b","i","l","e">>, <<"r","e","c","h","a","r","g","e">>, <<"b","i","l","l">>, <<"b","r","o","a","d","b","a","n","d">>, <<"p","r","e","p","a","i","d">>, <<"p","o","s","t","p","a","i","d">>, <<"m","a","i","n","t","e","n","a","n","c","e">>>>],
    [category |-> "Entertainment",
     keywords |-> <<<<"m","o","v","i","e">>, <<"n","e","t","f","l","i","x">>, <<"s","p","o","t","i","f","y">>, <<"g","a","m","i","n","g">>, <<"c","o","n","c","e","r","t">>, <<"t","h","e","a","t","e","r">>, <<"s","u","b","s","c","r","i","p","t","i","o","n">>, <<"d","i","s","n","e","y">>, <<"p","r","i","m","e">>, <<"y","o","u","t","u","b","e">>, <<"m","u","s","i","c">>, <<"b","o","o","k">>, <<"m","a","g","a","z","i","n","e">>>>],
    [category |-> "Healthcare",
     keywords |-> <<<<"d","o","c","t","o","r">>, <<"m","e","d","i","c","i","n","e">>, <<"p","h","a","r","m","a","c","y">>, <<"h","o","s","p","i","t","a","l">>, <<"c","l","i","n","i","c">>, <<"d","e","n","t","a","l">>, <<"h","e","a","l","t","h">>, <<"m","e","d","i","c","a","l">>, <<"l","a","b">>, <<"t","e","s","t">>, <<"i","n","s","u","r","a","n","c","e">>, <<"t","h","e","r","a","p","y">>, <<"c","o","n","s","u","l","t","a","t","i","o","n">>>>],
    [category |-> "Education",
     keywords |-> <<<<"c","o","u","r","s","e">>, <<"t","u","i","t","i","o","n">>, <<"b","o","o","k">>, <<"u","d","e","m","y">>, <<"c","o","u","r","s","e","r","a">>, <<"s","c","h","o","o","l">>, <<"c","o","l","l","e","g","e">>, <<"t","r","a","i","n","i","n","g">>, <<"c","e","r","t","i","f","i","c","a","t","i","o","n">>, <<"e","x","a","m">>, <<"c","l","a","s","s">>, <<"t","u","t","o","r","i","a","l">>>>],
    [category |-> "Groceries",
     keywords |-> <<<<"g","r","o","c","e","r","y">>, <<"s","u","p","e","r","m","a","r","k","e","t">>, <<"v","e","g","e","t","a","b","l","e","s">>, <<"f","r","u","i","t","s">>, <<"m","i","l","k">>, <<"b","r","e","a","d">>, <<"b","i","g","b","a","s","k","e","t">>, <<"d","m","a","r","t">>, <<"r","e","l","i","a","n","c","e"," ","f","r","e","s","h">>, <<"o","r","g","a","n","i","c">>, <<"p","r","o","v","i","s","i","o","n","s">>>>],
    [category |-> "Rent & Housing",
     keywords |-> <<<<"r","e","n","t">>, <<"h","o","u","s","i","n","g">>, <<"a","p","a","r","t","m","e","n","t">>, <<"f","l","a","t">>, <<"m","a","i","n","t","e","n","a","n","c","e">>, <<"s","o","c","i","e","t","y">>, <<"e","m","i">>, <<"m","o","r","t","g","a","g","e">>, <<"p","r","o","p","e","r","t","y">>>>],
    [category |-> "Personal Care",
     keywords |-> <<<<"s","a","l","o","n">>, <<"s","p","a">>, <<"h","a","i","r","c","u","t">>, <<"b","e","a","u","t","y">>, <<"c","o","s","m","e","t","i","c">>, <<"g","y","m">>, <<"f","i","t","n","e","s","s">>, <<"y","o","g","a">>, <<"g","r","o","o","m","i","n","g">>>>]
  >>

\* A variant that starts the search at bestScore = 1.
expenseStartAtOne == [category |-> "Other", score |-> 1]

\* let bestCategory = 'Other'; let bestScore = 0;
expenseStart == [category |-> "Other", score |-> 0]

\* A variant that compares with >=, so that the last of several leaders wins.
expenseKeepLast(best, category, score) ==
    IF score >= best.score THEN [category |-> category, score |-> score] ELSE best

\* if (score > bestScore) { bestScore = score; bestCategory = category; }
expenseKeep(best, category, score) ==
    IF score > best.score THEN [category |-> category, score |-> score] ELSE best

\* Object.entries(categoryKeywords).forEach(...), after its first n entries.
RECURSIVE expenseBest(_, _)
expenseBest(lower, n) ==
    IF n = 0 THEN expenseStart
    ELSE expenseKeep(expenseBest(lower, n - 1), categoryKeywords[n].category,
                     countHits(categoryKeywords[n].keywords, lower))

\* A variant whose jitter is Math.random() * 100.
expenseConfidenceWide(bestScore, r) ==
    toFixed1(min(9500, 5000 + bestScore * 1500 + 10 * randomTimes10(r)))

\* A variant whose per-hit increment is 5, less than the jitter.
expenseConfidenceSmallStep(bestScore, r) ==
    toFixed1(min(9500, 5000 + bestScore * 500 + randomTimes10(r)))

\* Math.min(95, 50 + bestScore * 15 + Math.random() * 10).toFixed(1)
expenseConfidence(bestScore, r) ==
    toFixed1(min(9500, 5000 + bestScore * 1500 + randomTimes10(r)))

\* The part of categorizeExpense that does not read Math.random().
expenseAnalysis(description) ==
    expenseBest(toLowerCase(description), Len(categoryKeywords))

\* The object categorizeExpense returns, with r the position of Math.random().
expenseResult(best, r) ==
    [category   |-> best.category,
     confidence |-> expenseConfidence(best.score, r)]

\* categorizeExpense(description)
categorizeExpense(description, r) == expenseResult(expenseAnalysis(description), r)

---------------------------------------------------------------------------
(* Inputs of the classifiers *)

TicketSubjects == {<<>>, <<"R","o","a","d">>, <<"T","h","a","n","k"," ","y","o","u">>}

TicketWords ==
    {<<"r","o","a","d">>, <<"w","a","t","e","r">>, <<"p","o","t","h","o","l","e">>, <<"R","E","P","A","I","R">>, <<"e","l","e","c","t","r","i","c","i","t","y">>, <<"u","r","g","e","n","t">>}

\* The ticket of the end-to-end example.
ExampleTicket ==
    [fn          |-> "classifyTicket",
     subject     |-> <<"R","o","a","d"," ","P","o","t","h","o","l","e"," ","C","o","m","p","l","a","i","n","t">>,
     description |-> <<"l","a","r","g","e"," ","p","o","t","h","o","l","e"," ","o","n"," ","M","G"," ","R","o","a","d"," ","d","a","m","a","g","e","d"," ","v","e","h","i","c","l","e","s",","," ","u","r","g","e","n","t"," ","r","e","p","a","i","r"," ","n","e","e","d","e","d">>]

TicketInputs ==
    {[fn |-> "classifyTicket", subject |-> s, description |-> Join(ws)] :
        s \in TicketSubjects, ws \in SeqsUpTo(TicketWords, MaxWords)}
    \cup {ExampleTicket}

ExpenseWords ==
    {<<"p","i","z","z","a">>, <<"t","a","x","i">>, <<"g","a","s">>, <<"t","h","e","a","t","e","r">>, <<"U","b","e","r"," ","E","a","t","s">>, <<"m","i","s","c">>}

\* U+0131, the small dotless i: toLowerCase leaves it alone, its capital is I.
DotlessI == "U+0131"

\* Descriptions that are not made of the words: blanks only, and 'taxi'
\* written with the dotless i.
OddDescriptions == {Space \o Space, <<"t","a","x">> \o <<DotlessI>>}

ExpenseInputs ==
    {[fn |-> "categorizeExpense", description |-> Join(ws)] :
        ws \in SeqsUpTo(ExpenseWords, MaxWords)}
    \cup {[fn |-> "categorizeExpense", description |-> text] : text \in OddDescriptions}

\* The two functions tabulated over the inputs of the model.
ticketAnalysisOn[inp \in TicketInputs] ==
    ticketAnalysis(inp.subject, inp.description)

classifyTicketOn(inp, r) == ticketResult(ticketAnalysisOn[inp], r)

expenseAnalysisOn[inp \in ExpenseInputs] == expenseAnalysis(inp.description)

categorizeExpenseOn(inp, r) == expenseResult(expenseAnalysisOn[inp], r)

---------------------------------------------------------------------------
(* The classifiers called on one input, again and again *)

NoCall == [called |-> FALSE]

InitCalls ==
    /\ clInput \in TicketInputs \cup ExpenseInputs
    /\ clResult = NoCall
    /\ clEarlier = NoCall

IdleCalls ==
    /\ clInput = [fn |-> "none"]
    /\ clResult = NoCall
    /\ clEarlier = NoCall

\* classifyTicket(clInput.subject, clInput.description); the call before it
\* is either remembered as the earlier call or forgotten for an older one.
CallClassifyTicket ==
    /\ clInput.fn = "classifyTicket"
    /\ clResult' = [called |-> TRUE, random |-> randomTimes10(rng),
                    value |-> classifyTicketOn(clInput, rng)]
    /\ clEarlier' \in {clEarlier, clResult}
    /\ rng' = nextRng(rng, 1)
    /\ UNCHANGED <<clInput, exVars, upVars, auVars, pgVars>>

\* categorizeExpense(clInput.description)
CallCategorizeExpense ==
    /\ clInput.fn = "categorizeExpense"
    /\ clResult' = [called |-> TRUE, random |-> randomTimes10(rng),
                    value |-> categorizeExpenseOn(clInput, rng)]
    /\ clEarlier' \in {clEarlier, clResult}
    /\ rng' = nextRng(rng, 1)
    /\ UNCHANGED <<clInput, exVars, upVars, auVars, pgVars>>

---------------------------------------------------------------------------
(* Number: IEEE 754 binary64, round to nearest, ties to even *)

\* A natural number of any size is the sequence of its digits in base
\* Limb = 2^14, least significant first.
Limb == 16384

\* b, with a evaluated first: TLC evaluates a definition where it is first
\* used, and this keeps the evaluation of long chains shallow.
after(a, b) == IF a = a THEN b ELSE b

bnDigit(a, i) == IF i \in 1..Len(a) THEN a[i] ELSE 0

\* The digits of a without its leading zeros.
bnTrim(a) ==
    LET used == {i \in 1..Len(a) : a[i] # 0}
    IN  IF used = {} THEN <<>>
        ELSE SubSeq(a, 1, CHOOSE i \in used : \A j \in used : j <= i)

\* The first k columns reduced to digits, and the carry out of them; a
\* column may hold any integer, a negative one borrowing from the next.
RECURSIVE bnReduce(_, _)
bnReduce(cols, k) ==
    IF k = 0 THEN [digits |-> <<>>, carry |-> 0]
    ELSE LET r == bnReduce(cols, k - 1)
             v == cols[k] + r.carry
         IN  [digits |-> Append(r.digits, v % Limb), carry |-> v \div Limb]

bnFromColumns(cols) == bnTrim(bnReduce(cols \o <<0, 0>>, Len(cols) + 2).digits)

bnFromInt(i) == bnFromColumns(<<i>>)

bnLonger(a, b) == IF Len(a) < Len(b) THEN Len(b) ELSE Len(a)

bnAdd(a, b) == bnFromColumns([k \in 1..bnLonger(a, b) |-> bnDigit(a, k) + bnDigit(b, k)])

\* a - b for a >= b
bnSub(a, b) == bnFromColumns([k \in 1..bnLonger(a, b) |-> bnDigit(a, k) - bnDigit(b, k)])

\* -1, 0 or 1 as a is less than, equal to or greater than b
bnCmp(a, b) ==
    LET differ == {i \in 1..bnLonger(a, b) : bnDigit(a, i) # bnDigit(b, i)}
        top    == CHOOSE i \in differ : \A j \in differ : j <= i
    IN  IF differ = {} THEN 0
        ELSE IF bnDigit(a, top) < bnDigit(b, top) THEN -1 ELSE 1

\* a[1] * b[k] + a[2] * b[k - 1] + ... + a[i] * b[k + 1 - i]
RECURSIVE bnColumn(_, _, _, _)
bnColumn(a, b, k, i) ==
    IF i = 0 THEN 0 ELSE bnColumn(a, b, k, i - 1) + a[i] * bnDigit(b, k + 1 - i)

\* a * b, for a or b of at most 7 digits
bnMul(a, b) ==
    after(<<a, b>>, bnFromColumns([k \in 1..(Len(a) + Len(b)) |-> bnColumn(a, b, k, Len(a))]))

\* a * 2^s
bnShl(a, s) ==
    bnFromColumns([k \in 1..(Len(a) + s \div 14) |->
                      bnDigit(a, k - s \div 14) * 2 ^ (s % 14)])

\* The integer part of a / 2^s
bnShr(a, s) ==
    LET r == 2 ^ (s % 14)
    IN  bnTrim([k \in 1..(Len(a) - s \div 14) |->
                   bnDigit(a, k + s \div 14) \div r
                       + (bnDigit(a, k + 1 + s \div 14) % r) * (Limb \div r)])

\* The remainder of (a without its digits below i) by n, for 0 < n < 2^16
RECURSIVE bnRemAbove(_, _, _)
bnRemAbove(a, n, i) ==
    IF i > Len(a) THEN 0 ELSE (bnRemAbove(a, n, i + 1) * Limb + a[i]) % n

\* The quotient q and the remainder r of a by n
bnDivSmall(a, n) ==
    [q |-> bnTrim([i \in 1..Len(a) |-> (bnRemAbove(a, n, i + 1) * Limb + a[i]) \div n]),
     r |-> bnRemAbove(a, n, 1)]

\* The number of binary digits of a
bnBitLength(a) ==
    LET t == bnTrim(a)
    IN  IF t = <<>> THEN 0
        ELSE 14 * (Len(t) - 1) + (CHOOSE b \in 1..14 : t[Len(t)] \div 2 ^ b = 0)

bnIsOdd(a) == bnDigit(a, 1) % 2 = 1

\* A Number is neg, m, e: the value (neg ? -1 : 1) * m * 2^e with m below
\* 2^53.  f64Round is the Number nearest to an exact value m * 2^e, the one
\* with the even significand when two are equally near.
f64Round(neg, m, e) ==
    LET sh == bnBitLength(m) - 53
    IN  IF sh <= 0 THEN [neg |-> neg, m |-> bnTrim(m), e |-> e]
        ELSE LET q    == bnShr(m, sh)
                 rest == bnSub(m, bnShl(q, sh))
                 c    == bnCmp(rest, bnShl(<<1>>, sh - 1))
                 up   == c > 0 \/ (c = 0 /\ bnIsOdd(q))
             IN  [neg |-> neg, m |-> IF up THEN bnAdd(q, <<1>>) ELSE q, e |-> e + sh]

f64FromInt(i) == [neg |-> FALSE, m |-> bnFromInt(i), e |-> 0]

f64Abs(x) == [x EXCEPT !.neg = FALSE]

\* x + y
f64Add(x, y) ==
    LET e  == IF x.e < y.e THEN x.e ELSE y.e
        mx == bnShl(x.m, x.e - e)
        my == bnShl(y.m, y.e - e)
        c  == bnCmp(mx, my)
    IN  IF x.neg = y.neg THEN f64Round(x.neg, bnAdd(mx, my), e)
        ELSE IF c = 0 THEN f64FromInt(0)
        ELSE IF c > 0 THEN f64Round(x.neg, bnSub(mx, my), e)
        ELSE f64Round(y.neg, bnSub(my, mx), e)

\* x - y
f64Sub(x, y) == f64Add(x, [y EXCEPT !.neg = ~y.neg])

\* x * y
f64Mul(x, y) == f64Round(x.neg # y.neg, bnMul(x.m, y.m), x.e + y.e)

\* x / n for an integer 0 < n < 2^16: the quotient is taken to 75 bits and
\* its last bit set when the division leaves a remainder.
f64DivInt(x, n) ==
    IF x.m = <<>> THEN x
    ELSE LET k == 75 - bnBitLength(x.m)
             d == bnDivSmall(bnShl(x.m, k), n)
             q == bnAdd(bnShl(d.q, 1), IF d.r = 0 THEN <<>> ELSE <<1>>)
         IN  f64Round(x.neg, q, x.e - k - 1)

\* s with its digit j set to d
bnWithDigit(s, j, d) == bnAdd(s, [k \in 1..(j + 1) |-> IF k = j + 1 THEN d ELSE 0])

\* d with bit i set when (s + (d + 2^i) * Limb^j)^2 <= m, else d
bnSqrtBit(m, s, j, d, i) ==
    LET t  == bnWithDigit(s, j, d + 2 ^ i)
        sq == bnMul(t, t)
    IN  after(t, after(sq, IF bnCmp(sq, m) <= 0 THEN d + 2 ^ i ELSE d))

\* d with its bits i, i - 1, ..., 0 decided in that order: the largest d'
\* that has the bits of d above i and (s + d' * Limb^j)^2 <= m.
RECURSIVE bnSqrtBits(_, _, _, _, _)
bnSqrtBits(m, s, j, d, i) ==
    IF i < 0 THEN d
    ELSE LET next == bnSqrtBit(m, s, j, d, i)
         IN  after(next, bnSqrtBits(m, s, j, next, i - 1))

\* s with its digits j, j - 1, ..., 0 decided in that order: the largest
\* number that has the digits of s above j and a square of at most m.
RECURSIVE bnSqrtDigits(_, _, _)
bnSqrtDigits(m, s, j) ==
    IF j < 0 THEN s
    ELSE LET next == bnWithDigit(s, j, bnSqrtBits(m, s, j, 0, 13))
         IN  after(next, bnSqrtDigits(m, next, j - 1))

\* The integer part of the square root of m, a number of at most 8 digits.
bnSqrt(m) == bnSqrtDigits(m, <<>>, 3)

\* Math.sqrt(x) for x >= 0: the root of the significand scaled to 111 or
\* 112 bits, its last bit set when the root is not exact.
f64Sqrt(x) ==
    IF x.m = <<>> THEN x
    ELSE LET k0 == 111 - bnBitLength(x.m)
             k  == IF (x.e - k0) % 2 = 0 THEN k0 ELSE k0 + 1
             m  == bnShl(x.m, k)
             s  == bnSqrt(m)
             q  == bnAdd(bnShl(s, 1), IF bnCmp(bnMul(s, s), m) = 0 THEN <<>> ELSE <<1>>)
         IN  after(<<m, s>>, f64Round(FALSE, q, ((x.e - k) \div 2) - 1))

\* x > y for x, y >= 0
f64Gt(x, y) ==
    LET e == IF x.e < y.e THEN x.e ELSE y.e
    IN  bnCmp(bnShl(x.m, x.e - e), bnShl(y.m, y.e - e)) > 0

\* xs.reduce((s, v) => s + v, 0) over the first k of xs
RECURSIVE f64Sum(_, _)
f64Sum(xs, k) == IF k = 0 THEN f64FromInt(0) ELSE f64Add(f64Sum(xs, k - 1), xs[k])

\* The filter callback of anomalies on an expense of the given amount in a
\* group with these amounts (integers), every operation rounded as the
\* engine rounds it; (v - mean) ** 2 is the rounded product.
f64IsAnomaly(amount, amounts) ==
    LET n == Len(amounts)
    IN  \E mean \in {f64DivInt(f64Sum([i \in 1..n |-> f64FromInt(amounts[i])], n), n)} :
        \E sqs \in {[i \in 1..n |->
                        LET d == f64Sub(f64FromInt(amounts[i]), mean) IN f64Mul(d, d)]} :
        \E variance \in {f64DivInt(f64Sum(sqs, n), n)} :
        \E std \in {f64Sqrt(variance)} :
            /\ std.m # <<>>
            /\ f64Gt(f64Abs(f64Sub(f64FromInt(amount), mean)), [std EXCEPT !.e = @ + 1])

---------------------------------------------------------------------------
(* parseCSV *)

\* new Date().toLocaleDateString()
Today == <<"1","1","/","3","/","2","0","2","6">>

\* The characters String.prototype.trim removes, of those of the model.
Whitespace == {" ", "\n"}

\* s.trim()
trim(s) ==
    LET kept == {i \in 1..Len(s) : s[i] \notin Whitespace}
    IN  IF kept = {} THEN <<>>
        ELSE SubSeq(s, CHOOSE i \in kept : \A j \in kept : i <= j,
                       CHOOSE i \in kept : \A j \in kept : j <= i)

\* s.split(sep), sep being one character
split(s, sep) ==
    LET cuts   == {i \in 1..Len(s) : s[i] = sep}
        cut(k) == IF k = 0 THEN 0
                  ELSE IF k > Cardinality(cuts) THEN Len(s) + 1
                  ELSE CHOOSE i \in cuts : Cardinality({j \in cuts : j < i}) = k - 1
    IN  [k \in 1..(Cardinality(cuts) + 1) |-> SubSeq(s, cut(k - 1) + 1, cut(k) - 1)]

\* headers.findIndex(h => h.includes(word)), counted from 1; 0 for -1
findIndex(headers, word) ==
    LET found == {i \in 1..Len(headers) : includes(headers[i], word)}
    IN  IF found = {} THEN 0 ELSE CHOOSE i \in found : \A j \in found : i <= j

Digits == <<"0","1","2","3","4","5","6","7","8","9">>

\* The value of the first n characters of s, all of them digits.
RECURSIVE digitsValue(_, _)
digitsValue(s, n) ==
    IF n = 0 THEN 0
    ELSE 10 * digitsValue(s, n - 1) + (CHOOSE d \in 1..10 : Digits[d] = s[n]) - 1

\* parseFloat(s) || 0 on a trimmed s without sign, point or exponent: the
\* value of the digits s starts with, 0 (for NaN) when it starts with none.
parseFloatOr0(s) ==
    LET isDigit(c) == \E d \in 1..10 : Digits[d] = c
        n == CHOOSE k \in 0..Len(s) :
                 /\ \A i \in 1..k : isDigit(s[i])
                 /\ k = Len(s) \/ ~isDigit(s[k + 1])
    IN  digitsValue(s, n)

\* cols[idx] || '', with idx counted from 1 and 0 for -1
column(cols, idx) == IF idx \in 1..Len(cols) THEN cols[idx] ELSE <<>>

\* parseCSV(text)
parseCSV(text) ==
    LET lines   == split(trim(text), "\n")
        headers == [i \in 1..Len(split(toLowerCase(lines[1]), ",")) |->
                       trim(split(toLowerCase(lines[1]), ",")[i])]
        descIdx == findIndex(headers, <<"d","e","s","c">>)
        amtIdx  == findIndex(headers, <<"a","m","o","u","n","t">>)
        dateIdx == findIndex(headers, <<"d","a","t","e">>)
        rows    == SelectSeq(Tail(lines), LAMBDA l : trim(l) # <<>>)
        cols(line) == [i \in 1..Len(split(line, ",")) |-> trim(split(line, ",")[i])]
    IN  IF Len(lines) < 2 THEN <<>>
        ELSE IF descIdx = 0 \/ amtIdx = 0 THEN <<>>
        ELSE [r \in 1..Len(rows) |->
                 [description |-> column(cols(rows[r]), descIdx),
                  amount      |-> parseFloatOr0(column(cols(rows[r]), amtIdx)),
                  date        |-> IF column(cols(rows[r]), dateIdx) # <<>>
                                  THEN column(cols(rows[r]), dateIdx) ELSE Today]]

\* The CSV files chosen in the file input: two rows under the documented
\* header; capitals, blanks, an empty line and a date column; a header
\* without a description column.
CsvFiles ==
    {<<"d","e","s","c","r","i","p","t","i","o","n",",","a","m","o","u","n","t">> \o <<"\n">> \o <<"p","i","z","z","a",",","1","0","0">> \o <<"\n">> \o <<"p","i","z","z","a",",","9","5","0">>,
     <<"D","a","t","e",","," ","D","e","s","c","r","i","p","t","i","o","n"," ",",","A","M","O","U","N","T">> \o <<"\n", "\n">> \o <<"1","/","2","/","2","0","2","6",","," ","t","a","x","i"," ",","," ","9","8">> \o <<"\n">>,
     <<"i","t","e","m",",","a","m","o","u","n","t">> \o <<"\n">> \o <<"p","i","z","z","a",",","1","0","0">>}

\* parseCSV tabulated over the files of the model.
parseCsvOn[text \in CsvFiles] == parseCSV(text)

---------------------------------------------------------------------------
(* AuthProvider, the routes of App and the Login page *)

\* useState(null) of AuthProvider
NoUser == [id |-> <<>>]

\* localStorage maps the keys that are set to their values.
setItem(storage, key, value) ==
    [k \in DOMAIN storage \cup {key} |-> IF k = key THEN value ELSE storage[k]]

removeItem(storage, key) == [k \in DOMAIN storage \ {key} |-> storage[k]]

\* localStorage.getItem(key) is neither null nor the empty string
truthyItem(storage, key) == key \in DOMAIN storage /\ storage[key] # ""

\* A variant of the mount effect that does not read the username.
sessionUserAnonymous(storage) ==
    IF "user_id" \in DOMAIN storage /\ truthyItem(storage, "user_role")
    THEN [id |-> storage["user_id"], role |-> storage["user_role"], username |-> "User"]
    ELSE NoUser

\* The mount effect of AuthProvider: the user it sets, NoUser when it sets none.
sessionUser(storage) ==
    IF "user_id" \in DOMAIN storage /\ truthyItem(storage, "user_role")
    THEN [id       |-> storage["user_id"],
          role     |-> storage["user_role"],
          username |-> IF truthyItem(storage, "username")
                       THEN storage["username"] ELSE "User"]
    ELSE NoUser

\* What login and signup do with the role they settled on, at Date.now() =
\* now: the four setItem calls and the user they set.
startSession(storage, username, role, now) ==
    LET data == [user_id |-> <<"user_", now>>, role |-> role,
                 session_id |-> <<"session_", now>>]
    IN  [storage |-> setItem(setItem(setItem(setItem(storage,
                         "user_id", data.user_id), "user_role", data.role),
                         "session_id", data.session_id), "username", username),
         user    |-> [id |-> data.user_id, role |-> data.role, username |-> username]]

\* login(username, password, role)
login(storage, username, role, now) ==
    startSession(storage, username,
                 IF role # "" THEN role
                 ELSE IF truthyItem(storage, "login_role") THEN storage["login_role"]
                 ELSE "citizen",
                 now)

\* signup(username, password, role)
signup(storage, username, role, now) == startSession(storage, username, role, now)

\* logout(): the five removeItem calls
logout(storage) ==
    removeItem(removeItem(removeItem(removeItem(removeItem(storage,
        "user_id"), "user_role"), "session_id"), "username"), "login_role")

\* The routes of AppRoutes that are wrapped in ProtectedRoute.
ProtectedRoutes ==
    {[path |-> "/government/dashboard",             requireRole |-> "government"],
     [path |-> "/government/document-intelligence", requireRole |-> "government"],
     [path |-> "/government/resume-screening",      requireRole |-> "government"],
     [path |-> "/government/traffic-violations",    requireRole |-> "government"],
     [path |-> "/government/anomaly-monitoring",    requireRole |-> "government"],
     [path |-> "/citizen/dashboard",                requireRole |-> "citizen"],
     [path |-> "/citizen/chatbot",                  requireRole |-> "citizen"],
     [path |-> "/citizen/fake-news",                requireRole |-> "citizen"],
     [path |-> "/citizen/support-tickets",          requireRole |-> "citizen"],
     [path |-> "/citizen/expense-categorizer",      requireRole |-> "citizen"]}

\* What a route renders: the spinner, a <Navigate to=...>, or a page.
Spinner == [kind |-> "spinner", at |-> ""]
Navigate(to) == [kind |-> "navigate", at |-> to]
Page(path) == [kind |-> "page", at |-> path]

\* A variant of ProtectedRoute without the role test.
ProtectedRouteAnyRole(requireRole, path, usr, isLoading) ==
    IF isLoading THEN Spinner
    ELSE IF usr = NoUser THEN Navigate("/login")
    ELSE Page(path)

\* <ProtectedRoute requireRole=...> around the page of path
ProtectedRoute(requireRole, path, usr, isLoading) ==
    IF isLoading THEN Spinner
    ELSE IF usr = NoUser THEN Navigate("/login")
    ELSE IF requireRole # "" /\ usr.role # requireRole
    THEN Navigate(IF usr.role = "government" THEN "/government/dashboard"
                  ELSE "/citizen/dashboard")
    ELSE Page(path)

\* <Routes>: the element of the route that matches pathname
AppRoutes(pathname, usr, isLoading) ==
    IF pathname \in {"/", "/login"} THEN Page(pathname)
    ELSE IF \E route \in ProtectedRoutes : route.path = pathname
    THEN ProtectedRoute((CHOOSE route \in ProtectedRoutes : route.path = pathname).requireRole,
                        pathname, usr, isLoading)
    ELSE Navigate("/")

\* Where the element on screen navigates once rendered: a <Navigate> to its
\* target, PortalSelection and Login to the dashboard of a signed-in
\* government or citizen user; "" when it does not navigate.
routeEffect(element, usr) ==
    IF element.kind = "navigate" THEN element.at
    ELSE IF element \in {Page("/"), Page("/login")} /\ usr # NoUser
    THEN IF usr.role = "government" THEN "/government/dashboard"
         ELSE IF usr.role = "citizen" THEN "/citizen/dashboard" ELSE ""
    ELSE ""

\* The addresses visited: every route, an address without a route, and the
\* Login page with the role parameters of the two portals, with none and
\* with one that is no role of the application.
Locations ==
    {[pathname |-> p, role |-> ""] :
        p \in {"/", "/login", "/nowhere"} \cup {route.path : route \in ProtectedRoutes}}
    \cup {[pathname |-> "/login", role |-> r] : r \in {"government", "citizen", "auditor"}}

\* The username field of the Login form, which is required.
Usernames == {"asha", " "}

\* No call of login, signup or logout yet.
NoAuthCall == [op |-> "none", user |-> NoUser, reloaded |-> FALSE]

\* A browser without a session, the application not yet loaded.
InitAuth ==
    /\ user = NoUser
    /\ authLoading = TRUE
    /\ localStorage = <<>>
    /\ location \in Locations
    /\ shown = AppRoutes(location.pathname, NoUser, TRUE)
    /\ clock = 1
    /\ lastCall = NoAuthCall

\* The page is loaded at an address (typed, or reloaded): AuthProvider
\* mounts with its initial state.
LoadPage(loc) ==
    /\ user' = NoUser
    /\ authLoading' = TRUE
    /\ location' = loc
    /\ shown' = AppRoutes(loc.pathname, NoUser, TRUE)
    /\ lastCall' = [lastCall EXCEPT !.reloaded = TRUE]
    /\ UNCHANGED <<localStorage, clock, rng, clVars, exVars, upVars, pgVars>>

\* useEffect(..., []) of AuthProvider, which runs before any event handler.
MountEffect ==
    /\ authLoading
    /\ user' = sessionUser(localStorage)
    /\ authLoading' = FALSE
    /\ shown' = AppRoutes(location.pathname, user', FALSE)
    /\ UNCHANGED <<localStorage, location, clock, lastCall, rng, clVars, exVars, upVars, pgVars>>

\* The element on screen navigates.
RouteEffect ==
    /\ ~authLoading
    /\ routeEffect(shown, user) # ""
    /\ location' = [pathname |-> routeEffect(shown, user), role |-> ""]
    /\ shown' = AppRoutes(location'.pathname, user, FALSE)
    /\ UNCHANGED <<user, authLoading, localStorage, clock, lastCall, rng, clVars, exVars, upVars, pgVars>>

\* A page is on screen and its effects have run.
Settled == ~authLoading /\ shown.kind = "page" /\ routeEffect(shown, user) = ""

\* A link or button of the page, or the history of the browser, leads to loc.
FollowLink(loc) ==
    /\ Settled
    /\ location' = loc
    /\ shown' = AppRoutes(loc.pathname, user, FALSE)
    /\ UNCHANGED <<user, authLoading, localStorage, clock, lastCall, rng, clVars, exVars, upVars, pgVars>>

\* handleSubmit of Login, in login mode (isLogin) or signup mode.
handleSubmit(username, isLogin) ==
    LET roleParam == IF location.role # "" THEN location.role ELSE "government"
        stored    == setItem(localStorage, "login_role", roleParam)
        result    == IF isLogin THEN login(stored, username, roleParam, clock)
                     ELSE signup(stored, username, roleParam, clock)
    IN  /\ Settled
        /\ shown = Page("/login")
        /\ clock <= MaxLogins
        /\ localStorage' = result.storage
        /\ user' = result.user
        /\ clock' = clock + 1
        /\ lastCall' = [op |-> IF isLogin THEN "login" ELSE "signup",
                        user |-> result.user, reloaded |-> FALSE]
        /\ shown' = AppRoutes(location.pathname, user', FALSE)
        /\ UNCHANGED <<authLoading, location, rng, clVars, exVars, upVars, pgVars>>

\* handleLogout of the Header of a dashboard or feature page.
handleLogout ==
    /\ Settled
    /\ \E route \in ProtectedRoutes : shown = Page(route.path)
    /\ localStorage' = logout(localStorage)
    /\ user' = NoUser
    /\ location' = [pathname |-> "/", role |-> ""]
    /\ shown' = AppRoutes("/", NoUser, FALSE)
    /\ lastCall' = [op |-> "logout", user |-> NoUser, reloaded |-> FALSE]
    /\ UNCHANGED <<authLoading, clock, rng, clVars, exVars, upVars, pgVars>>

\* A citizen has signed in and the page of pathname is on screen.
SignedIn(pathname) ==
    LET session == login(setItem(<<>>, "login_role", "citizen"), "asha", "citizen", 1)
    IN  /\ user = session.user
        /\ authLoading = FALSE
        /\ localStorage = session.storage
        /\ location = [pathname |-> pathname, role |-> ""]
        /\ shown = AppRoutes(pathname, session.user, FALSE)
        /\ clock = 2
        /\ lastCall = [op |-> "login", user |-> session.user, reloaded |-> FALSE]
---------------------------------------------------------------------------
(* The ExpenseCategorizer component *)

Pizza == <<"p","i","z","z","a">>
Taxi == <<"t","a","x","i">>

\* What the user types into the ADD MANUALLY form: manualDesc, manualAmount.
ManualEntries ==
    {[manualDesc |-> Pizza, manualAmount |-> 100],
     [manualDesc |-> Pizza, manualAmount |-> 950],
     [manualDesc |-> Taxi,  manualAmount |-> 950],
     [manualDesc |-> Space, manualAmount |-> 100]}

\* The entries of the runs that study the order of the list: one category,
\* two amounts.
OrderEntries ==
    {[manualDesc |-> Pizza, manualAmount |-> 100],
     [manualDesc |-> Pizza, manualAmount |-> 7]}

\* The entry typed in while files are read.
UploadEntries == {[manualDesc |-> Taxi, manualAmount |-> 950]}

\* The four expenses of the worked example, one category, already entered.
ExampleBatch ==
    [i \in 1..4 |-> [description |-> Pizza,
                     amount      |-> <<100, 105, 98, 950>>[i],
                     date        |-> Today]]

\* The expenses list at the start of a run: empty, as useState([]) leaves
\* it, or holding the worked example.
InitialBatches == {<<>>, ExampleBatch}

\* categorizeExpense tabulated over the descriptions of the component.
EntryDescriptions ==
    {entry.manualDesc : entry \in ManualEntries \cup OrderEntries}
        \cup {ExampleBatch[i].description : i \in 1..4}
        \cup UNION {{parseCsvOn[text][r].description : r \in DOMAIN parseCsvOn[text]} :
                       text \in CsvFiles}

entryAnalysisOn[description \in EntryDescriptions] == expenseAnalysis(description)

categorizeEntryOn(description, r) == expenseResult(entryAnalysisOn[description], r)

\* s.trim() is the empty string
isBlank(s) == \A i \in 1..Len(s) : s[i] = " "

\* expenses.map(e => ({ ...e, ...categorizeExpense(e.description) })): one
\* call of Math.random() per expense, the first at position r.
categorize(exps, r) ==
    [i \in 1..Len(exps) |->
        LET c == categorizeEntryOn(exps[i].description, nextRng(r, i - 1))
        IN  [description |-> exps[i].description,
             amount      |-> exps[i].amount,
             date        |-> exps[i].date,
             category    |-> c.category,
             confidence  |-> c.confidence]]

\* A variant that pools the amounts of all categories under every key.
categoryStatsPooled(cz) ==
    [c \in {cz[i].category : i \in DOMAIN cz} |->
        [i \in 1..Len(cz) |-> cz[i].amount]]

\* categorized.forEach(e => { ...categoryStats[e.category].push(e.amount) })
RECURSIVE categoryStats(_)
categoryStats(cz) ==
    IF cz = <<>> THEN [c \in {} |-> <<>>]
    ELSE LET stats == categoryStats(SubSeq(cz, 1, Len(cz) - 1))
             e == cz[Len(cz)]
         IN  IF e.category \in DOMAIN stats
             THEN [stats EXCEPT ![e.category] = Append(@, e.amount)]
             ELSE stats @@ (e.category :> <<e.amount>>)

\* amounts.reduce((s, v) => s + v, 0)
RECURSIVE sumTo(_, _)
sumTo(amounts, k) == IF k = 0 THEN 0 ELSE sumTo(amounts, k - 1) + amounts[k]

sumOf(amounts) == sumTo(amounts, Len(amounts))

\* const mean = ...; const std = Math.sqrt(...): the statistics of the group
\* of e, kept as integers.  With n = amounts.length and sum = n * mean,
\*     e.amount - mean = dev / n     where dev = n * e.amount - sum
\*     std ^ 2         = sq / n ^ 3  where sq  = sum over v of (n * v - sum) ^ 2
\* These are the values the code's mean and std round.
groupDeviation(e, stats) ==
    LET amounts == stats[e.category]
        n       == Len(amounts)
        sum     == sumOf(amounts)
    IN  [n   |-> n,
         dev |-> n * e.amount - sum,
         sq  |-> sumOf([i \in 1..n |-> (n * amounts[i] - sum) * (n * amounts[i] - sum)])]

\* A variant that compares the deviation with k * std ^ 2 (no Math.sqrt).
exceedsKVariance(d, kNum, kDen) ==
    LET absDev == IF d.dev < 0 THEN -d.dev ELSE d.dev
    IN  IF d.n < 2 THEN FALSE
        ELSE d.sq > 0 /\ kDen * d.n * d.n * absDev > kNum * d.sq

\* if (amounts.length < 2) return false;
\* return std > 0 && Math.abs(e.amount - mean) > k * std, for k = kNum / kDen.
\* Both sides of the comparison being non-negative, it is the comparison of
\* their squares: dev^2 / n^2 > k^2 * sq / n^3.  (n up to 8 and amounts up to
\* 950 keep every product below 2^31 for kNum up to 4 and kDen up to 2.)
exceedsK(d, kNum, kDen) ==
    IF d.n < 2 THEN FALSE
    ELSE d.sq > 0 /\ kDen * kDen * d.n * d.dev * d.dev > kNum * kNum * d.sq

\* A variant that compares with >= 2 * std.
isAnomalyGe(e, stats) ==
    LET d == groupDeviation(e, stats)
    IN  IF d.n < 2 THEN FALSE
        ELSE d.sq > 0 /\ d.n * d.dev * d.dev >= 4 * d.sq

\* A variant without the std > 0 test, comparing with >= 2 * std.
isAnomalyUnguarded(e, stats) ==
    LET d == groupDeviation(e, stats)
    IN  IF d.n < 2 THEN FALSE
        ELSE d.n * d.dev * d.dev >= 4 * d.sq

\* An expense and the amounts of its group, four of them equal and the
\* expense the fifth: its amount lies 2 * std from the mean exactly.
TieCases ==
    LET amounts == {entry.manualAmount : entry \in ManualEntries \cup OrderEntries}
    IN  UNION {{<<b, [i \in 1..5 |-> IF i = k THEN b ELSE a]>> :
                    b \in amounts \ {a}, k \in 1..5} : a \in amounts}

\* The filter callback tabulated over TieCases.
f64IsAnomalyOn[case \in TieCases] == f64IsAnomaly(case[1], case[2])

\* The filter callback of anomalies, whose multiplier is 2.  The code
\* compares the rounded |e.amount - mean| with the rounded 2 * std.  When
\* the exact values differ, they differ by more than 2^-32 of their size
\* (their squares are ratios of integers below 2^31 on one denominator),
\* the roundings of mean, std and the difference move them by less than
\* 2^-48 of it, and the rounded comparison is the exact one.  When the
\* exact values are equal, the roundings decide.
isAnomaly(e, stats) ==
    LET d    == groupDeviation(e, stats)
        case == <<e.amount, stats[e.category]>>
    IN  IF d.n >= 2 /\ d.sq > 0 /\ d.n * d.dev * d.dev = 4 * d.sq
        THEN IF case \in TieCases THEN f64IsAnomalyOn[case]
             ELSE f64IsAnomaly(case[1], case[2])
        ELSE exceedsK(d, 2, 1)

\* A variant that returns one entry per expense.
anomaliesOfAll(cz) == cz

\* A variant that flags only expenses categorized with confidence >= 70.
anomaliesOfConfident(cz) ==
    LET stats == categoryStats(cz)
    IN  SelectSeq(cz, LAMBDA e : isAnomaly(e, stats) /\ e.confidence >= 700)

\* categorized.filter(e => ...)
anomaliesOf(cz) ==
    LET stats == categoryStats(cz)
    IN  SelectSeq(cz, LAMBDA e : isAnomaly(e, stats))

\* const steps = [...]
steps ==
    <<"Reading CSV file...", "Parsing expense data...", "Running TF-IDF categorization...",
      "Detecting anomalies (Isolation Forest)...", "Generating insights...">>

\* The rows that the calls of handleFileUpload still running may append.
PendingRows ==
    sumOf([i \in 1..Len(uploads) |->
              IF uploads[i].pc <= Len(steps) + 1 THEN Len(parseCsvOn[uploads[i].file]) ELSE 0])

\* The component rendered with exps as its expenses, Math.random() at seed,
\* and no file chosen.
Rendered(exps, seed) ==
    /\ expenses = exps
    /\ categorized = categorize(exps, seed)
    /\ anomalies = anomaliesOf(categorized)
    /\ rng = nextRng(seed, Len(exps))
    /\ exLastOp = "mount"
    /\ loading = FALSE
    /\ processingStep = ""
    /\ uploads = <<>>

\* The form is submitted with entry typed in; the new expenses array makes
\* both memos recompute in the render that follows.
handleManualAdd(entry) ==
    /\ Len(expenses) + PendingRows < MaxExpenses
    /\ ~isBlank(entry.manualDesc)
    /\ expenses' = Append(expenses, [description |-> entry.manualDesc,
                                     amount      |-> entry.manualAmount,
                                     date        |-> Today])
    /\ categorized' = categorize(expenses', rng)
    /\ anomalies' = anomaliesOf(categorized')
    /\ rng' = nextRng(rng, Len(expenses'))
    /\ exLastOp' = "handleManualAdd"
    /\ UNCHANGED <<clVars, upVars, auVars, pgVars>>

\* React runs the two memo callbacks again on an unchanged expenses array
\* (a discarded memo cache, a double render): fresh Math.random() draws.
Recompute ==
    /\ expenses # <<>>
    /\ categorized' = categorize(expenses, rng)
    /\ anomalies' = anomaliesOf(categorized')
    /\ rng' = nextRng(rng, Len(expenses))
    /\ exLastOp' = "recompute"
    /\ UNCHANGED <<expenses, clVars, upVars, auVars, pgVars>>


---------------------------------------------------------------------------
(* handleFileUpload of ExpenseCategorizer *)

\* A file is chosen in the file input: handleFileUpload runs to its first
\* await, the timer of the first step, whose delay draws Math.random().
handleFileUpload(file) ==
    /\ Len(uploads) < MaxUploads
    /\ Len(expenses) + PendingRows + Len(parseCsvOn[file]) <= MaxExpenses
    /\ loading' = TRUE
    /\ processingStep' = steps[1]
    /\ uploads' = Append(uploads, [file |-> file, pc |-> 1])
    /\ rng' = nextRng(rng, 1)
    /\ UNCHANGED <<expenses, categorized, anomalies, exLastOp, clVars, auVars, pgVars>>

\* The timer of a step fires in call i of handleFileUpload, which goes on to
\* the next step and its timer or, after the last step, to await file.text().
stepTimer(i) ==
    /\ uploads[i].pc <= Len(steps)
    /\ uploads' = [uploads EXCEPT ![i].pc = @ + 1]
    /\ IF uploads[i].pc < Len(steps)
       THEN processingStep' = steps[uploads[i].pc + 1] /\ rng' = nextRng(rng, 1)
       ELSE UNCHANGED <<processingStep, rng>>
    /\ UNCHANGED <<loading, expenses, categorized, anomalies, exLastOp, clVars, auVars, pgVars>>

\* A variant that sets the parsed rows in place of the list: setExpenses(parsed).
fileTextReplacing(i) ==
    /\ uploads[i].pc = Len(steps) + 1
    /\ uploads' = [uploads EXCEPT ![i].pc = @ + 1]
    /\ expenses' = parseCsvOn[uploads[i].file]
    /\ categorized' = categorize(expenses', rng)
    /\ anomalies' = anomaliesOf(categorized')
    /\ rng' = nextRng(rng, Len(expenses'))
    /\ loading' = FALSE
    /\ processingStep' = ""
    /\ exLastOp' = "handleFileUpload"
    /\ UNCHANGED <<clVars, auVars, pgVars>>

\* file.text() resolves in call i of handleFileUpload, which parses the text,
\* appends the rows and ends; both memos recompute in the render that follows.
fileText(i) ==
    /\ uploads[i].pc = Len(steps) + 1
    /\ uploads' = [uploads EXCEPT ![i].pc = @ + 1]
    /\ expenses' = expenses \o parseCsvOn[uploads[i].file]
    /\ categorized' = categorize(expenses', rng)
    /\ anomalies' = anomaliesOf(categorized')
    /\ rng' = nextRng(rng, Len(expenses'))
    /\ loading' = FALSE
    /\ processingStep' = ""
    /\ exLastOp' = "handleFileUpload"
    /\ UNCHANGED <<clVars, auVars, pgVars>>

---------------------------------------------------------------------------
(* RAGChatbot *)

\* messages[0], by its first line
WelcomeMessage ==
    [role |-> "assistant", text |-> <<"W","e","l","c","o","m","e"," ","t","o"," ","t","h","e"," ","C",".","I",".","T",".","A",".","D",".","E",".","L","."," ","A","I"," ","A","s","s","i","s","t","a","n","t","!">>,
     sources |-> <<>>, confidence |-> 100, aiPowered |-> TRUE]

fallbackText == <<"I"," ","a","p","o","l","o","g","i","z","e",","," ","b","u","t"," ","t","h","e"," ","l","o","c","a","l"," ","A","I"," ","s","e","r","v","i","c","e"," ","(","O","l","l","a","m","a",")"," ","i","s"," ","t","e","m","p","o","r","a","r","i","l","y"," ","u","n","a","v","a","i","l","a","b","l","e","."," ","P","l","e","a","s","e"," ","m","a","k","e"," ","s","u","r","e"," ","t","h","e"," ","b","a","c","k","e","n","d"," ","s","e","r","v","e","r"," ","i","s"," ","r","u","n","n","i","n","g",".">>

\* What is typed into the input.
Queries == {<<>>, <<" ">>, <<"p","e","n","s","i","o","n"," ">>, <<"t","a","x">>}

\* What callBackend resolves to: a result with an answer and a session id,
\* or one with neither.  The results of the model carry no sources and no
\* confidence; confidences are in hundredths.
BackendResults ==
    {[answer |-> <<"A","p","p","l","y"," ","o","n","l","i","n","e",".">>, session_id |-> "s1"],
     [answer |-> <<"V","i","s","i","t"," ","t","h","e"," ","o","f","f","i","c","e",".">>, session_id |-> "s2"],
     [answer |-> <<>>, session_id |-> ""]}

\* The result of a call that has not resolved.
NoResult == [answer |-> <<>>, session_id |-> ""]

\* The message of the try branch.
aiMessage(result) ==
    [role       |-> "assistant",
     text       |-> IF result.answer # <<>> THEN result.answer
                    ELSE <<"N","o"," ","r","e","s","p","o","n","s","e"," ","r","e","c","e","i","v","e","d">>,
     sources    |-> <<>>,
     confidence |-> 80,
     aiPowered  |-> TRUE]

\* The message of the catch branch.
fallbackMessage ==
    [role |-> "assistant", text |-> fallbackText, sources |-> <<>>,
     confidence |-> 10, aiPowered |-> FALSE]

\* RAGChatbot mounts.
InitChat ==
    /\ messages = <<WelcomeMessage>>
    /\ input = <<>>
    /\ chatLoading = FALSE
    /\ streamingText = ""
    /\ aiStatus = "ONLINE"
    /\ sessionId = ""
    /\ sends = <<>>
    /\ resetTimers = <<>>
    /\ statusFrom = 0

\* onChange of the input, which is disabled while loading.
onChange(text) ==
    /\ ~chatLoading
    /\ input' = text
    /\ UNCHANGED <<messages, chatLoading, streamingText, aiStatus, sessionId, sends,
                   resetTimers, statusFrom>>
    /\ UNCHANGED <<rng, clVars, exVars, upVars, auVars, tkVars, nwVars>>

\* The form is submitted: handleSend() runs to its await.  With an empty
\* query or while loading it returns at once and nothing changes.
handleSend ==
    LET query == trim(input)
    IN  /\ query # <<>>
        /\ ~chatLoading
        /\ Len(sends) < MaxSends
        /\ messages' = Append(messages, [role |-> "user", text |-> query])
        /\ input' = <<>>
        /\ chatLoading' = TRUE
        /\ aiStatus' = "PROCESSING"
        /\ statusFrom' = Len(sends) + 1
        /\ streamingText' = "Connecting to Local Ollama..."
        /\ sends' = Append(sends, [query |-> query, sessionId |-> sessionId, pc |-> "await",
                                 settled |-> "pending", result |-> NoResult])
        /\ UNCHANGED <<sessionId, resetTimers>>
        /\ UNCHANGED <<rng, clVars, exVars, upVars, auVars, tkVars, nwVars>>

\* callBackend resolves in call i of handleSend, which runs the rest of its
\* try block and its last two lines; sessionId is the one of the render in
\* which the call was made.
callBackendResolves(i, result) ==
    /\ sends[i].pc = "await"
    /\ sends' = [sends EXCEPT ![i].pc = "done", ![i].settled = "resolved",
                               ![i].result = result]
    /\ sessionId' = IF result.session_id # "" /\ sends[i].sessionId = ""
                    THEN result.session_id ELSE sessionId
    /\ messages' = Append(messages, aiMessage(result))
    /\ aiStatus' = "ONLINE"
    /\ statusFrom' = i
    /\ chatLoading' = FALSE
    /\ streamingText' = ""
    /\ UNCHANGED <<input, resetTimers>>
    /\ UNCHANGED <<rng, clVars, exVars, upVars, auVars, tkVars, nwVars>>

\* A variant whose catch block sets the status and appends no message.
callBackendRejectsSilently(i) ==
    /\ sends[i].pc = "await"
    /\ sends' = [sends EXCEPT ![i].pc = "done", ![i].settled = "rejected"]
    /\ aiStatus' = "FALLBACK"
    /\ statusFrom' = i
    /\ resetTimers' = Append(resetTimers, i)
    /\ chatLoading' = FALSE
    /\ streamingText' = ""
    /\ UNCHANGED <<messages, input, sessionId>>
    /\ UNCHANGED <<rng, clVars, exVars, upVars, auVars, tkVars, nwVars>>

\* callBackend rejects (fetch fails, or the status is not ok) in call i of
\* handleSend, which runs its catch block, starting the timer, and its last
\* two lines.
callBackendRejects(i) ==
    /\ sends[i].pc = "await"
    /\ sends' = [sends EXCEPT ![i].pc = "done", ![i].settled = "rejected"]
    /\ aiStatus' = "FALLBACK"
    /\ statusFrom' = i
    /\ messages' = Append(messages, fallbackMessage)
    /\ resetTimers' = Append(resetTimers, i)
    /\ chatLoading' = FALSE
    /\ streamingText' = ""
    /\ UNCHANGED <<input, sessionId>>
    /\ UNCHANGED <<rng, clVars, exVars, upVars, auVars, tkVars, nwVars>>

\* The oldest pending timer of line 116 fires: timers of equal delay fire
\* in the order in which they were started.
resetTimer ==
    /\ resetTimers # <<>>
    /\ aiStatus' = "ONLINE"
    /\ statusFrom' = Head(resetTimers)
    /\ resetTimers' = Tail(resetTimers)
    /\ UNCHANGED <<messages, input, chatLoading, streamingText, sessionId, sends>>
    /\ UNCHANGED <<rng, clVars, exVars, upVars, auVars, tkVars, nwVars>>

---------------------------------------------------------------------------
(* SupportTickets: handleSubmit and the list of tickets *)

\* const steps = [...] of handleSubmit
ticketSteps ==
    <<"Preprocessing text...", "Running BERT classifier...", "Analyzing sentiment (VADER)...",
      "Computing priority score...", "Routing to department...">>

\* What the form holds when it is submitted.
TicketForms ==
    {ExampleTicket,
     [fn |-> "classifyTicket", subject |-> <<"T","h","a","n","k"," ","y","o","u">>, description |-> <<"u","r","g","e","n","t"," ","r","o","a","d">>],
     [fn |-> "classifyTicket", subject |-> <<>>, description |-> <<"r","o","a","d">>]}

NoSubmission == [pc |-> 0, form |-> ExampleTicket]

\* Math.floor(100000 + Math.random() * 900000), the number in the id
ticketNumber(r) == 100000 + randomTimes10(r) * 900

\* const newTicket = {id, subject, description, ...classification, created_at, status}
newTicket(form, r, now) ==
    [created_at |-> now, status |-> "Open"]
        @@ classifyTicketOn(form, r)
        @@ [id |-> ticketNumber(nextRng(r, 1)), subject |-> form.subject,
            description |-> form.description]

InitTickets ==
    /\ tickets = <<>>
    /\ ticketLoading = FALSE
    /\ ticketStep = ""
    /\ submission = NoSubmission

\* handleSubmit of SupportTickets up to the timer of its first step. The submit
\* button is disabled while loading, so one call runs at a time.
handleSubmitTicket(form) ==
    /\ ~ticketLoading
    /\ Len(tickets) < MaxTickets
    /\ trim(form.subject) # <<>>
    /\ trim(form.description) # <<>>
    /\ ticketLoading' = TRUE
    /\ ticketStep' = ticketSteps[1]
    /\ submission' = [pc |-> 1, form |-> form]
    /\ rng' = nextRng(rng, 1)
    /\ UNCHANGED <<tickets, clVars, exVars, upVars, auVars, chVars, nwVars>>

\* The timer of a step but the last fires: the next step and its timer.
ticketStepTimer ==
    /\ submission.pc \in 1..(Len(ticketSteps) - 1)
    /\ submission' = [submission EXCEPT !.pc = @ + 1]
    /\ ticketStep' = ticketSteps[submission.pc + 1]
    /\ rng' = nextRng(rng, 1)
    /\ UNCHANGED <<tickets, ticketLoading, clVars, exVars, upVars, auVars, chVars, nwVars>>

\* The timer of the last step fires: the ticket is classified, numbered and
\* put at the head of the list.
ticketFiled ==
    /\ submission.pc = Len(ticketSteps)
    /\ tickets' = <<newTicket(submission.form, rng, clock)>> \o tickets
    /\ clock' = clock + 1
    /\ rng' = nextRng(rng, 2)
    /\ ticketLoading' = FALSE
    /\ ticketStep' = ""
    /\ submission' = NoSubmission
    /\ UNCHANGED <<user, authLoading, localStorage, location, shown, lastCall,
                   clVars, exVars, upVars, chVars, nwVars>>

---------------------------------------------------------------------------
(* FakeNewsDetector: analyzeText *)

\* String.prototype.toUpperCase
toUpperCaseChar(c) ==
    IF \E i \in 1..Len(LowerCase) : LowerCase[i] = c
    THEN UpperCase[CHOOSE i \in 1..Len(LowerCase) : LowerCase[i] = c]
    ELSE IF c = DotlessI THEN "I" ELSE c

toUpperCase(s) == [i \in 1..Len(s) |-> toUpperCaseChar(s[i])]

\* F(v), with v evaluated once.
valueOf(v, F(_)) == CHOOSE x \in {F(y) : y \in {v}} : TRUE

\* The maximal runs of characters of s outside seps, in order.
runsOutside(s, seps) ==
    LET starts == {i \in 1..Len(s) : s[i] \notin seps /\ (i = 1 \/ s[i - 1] \in seps)}
        ends   == {i \in 1..Len(s) : s[i] \notin seps /\ (i = Len(s) \/ s[i + 1] \in seps)}
        nth(S, k) == CHOOSE i \in S : Cardinality({j \in S : j <= i}) = k
    IN  [k \in 1..Cardinality(starts) |-> SubSeq(s, nth(starts, k), nth(ends, k))]

\* s.split(re) for re one or more characters of seps: the runs between the
\* separators, and an empty string where s begins or ends with a separator.
splitRuns(s, seps) ==
    (IF s = <<>> \/ s[1] \in seps THEN << <<>> >> ELSE <<>>)
    \o runsOutside(s, seps)
    \o (IF s # <<>> /\ s[Len(s)] \in seps THEN << <<>> >> ELSE <<>>)

\* text.split(/\s+/)
splitWords(text) == splitRuns(text, Whitespace)

\* text.split(/[.!?]+/).filter(Boolean)
splitSentences(text) ==
    SelectSeq(splitRuns(text, {".", "!", "?"}), LAMBDA s : s # <<>>)

\* s.substring(0, n)
substring0(s, n) == SubSeq(s, 1, min(n, Len(s)))

sensationalWords ==
    <<<<"s","h","o","c","k","i","n","g">>, <<"b","r","e","a","k","i","n","g">>, <<"u","n","b","e","l","i","e","v","a","b","l","e">>, <<"s","e","c","r","e","t">>, <<"e","x","p","o","s","e","d">>,
      <<"b","o","m","b","s","h","e","l","l">>, <<"e","x","p","l","o","s","i","v","e">>, <<"d","e","v","a","s","t","a","t","i","n","g">>, <<"h","o","r","r","i","f","y","i","n","g">>, <<"m","i","r","a","c","u","l","o","u","s">>,
      <<"u","r","g","e","n","t">>, <<"a","l","e","r","t">>, <<"w","a","r","n","i","n","g">>, <<"e","x","c","l","u","s","i","v","e">>, <<"s","c","a","n","d","a","l">>>>

emotionalWords ==
    <<<<"o","u","t","r","a","g","e">>, <<"f","u","r","y">>, <<"t","e","r","r","i","f","y","i","n","g">>, <<"a","m","a","z","i","n","g">>, <<"i","n","c","r","e","d","i","b","l","e">>, <<"d","i","s","g","u","s","t","i","n","g">>,
      <<"h","o","r","r","i","b","l","e">>, <<"w","o","n","d","e","r","f","u","l">>, <<"t","e","r","r","i","b","l","e">>, <<"s","h","o","c","k","i","n","g">>, <<"a","l","a","r","m","i","n","g">>, <<"f","r","i","g","h","t","e","n","i","n","g">>>>

sourceIndicators ==
    <<<<"a","c","c","o","r","d","i","n","g"," ","t","o">>, <<"s","o","u","r","c","e","s"," ","s","a","y">>, <<"r","e","p","o","r","t","e","d"," ","b","y">>, <<"o","f","f","i","c","i","a","l","s"," ","s","a","y">>,
      <<"s","t","u","d","y"," ","s","h","o","w","s">>, <<"r","e","s","e","a","r","c","h"," ","i","n","d","i","c","a","t","e","s">>, <<"d","a","t","a"," ","s","h","o","w","s">>, <<"e","x","p","e","r","t","s"," ","s","a","y">>>>

clickbaitPhrases ==
    <<<<"y","o","u"," ","w","o","n","'","t"," ","b","e","l","i","e","v","e">>, <<"w","h","a","t"," ","h","a","p","p","e","n","e","d"," ","n","e","x","t">>, <<"t","h","i","s"," ","i","s"," ","w","h","y">>, <<"t","h","e"," ","t","r","u","t","h"," ","a","b","o","u","t">>,
      <<"t","h","e","y"," ","d","o","n","'","t"," ","w","a","n","t"," ","y","o","u"," ","t","o"," ","k","n","o","w">>, <<"o","n","e"," ","w","e","i","r","d"," ","t","r","i","c","k">>, <<"d","o","c","t","o","r","s"," ","h","a","t","e">>>>

topicMap ==
    <<[topic |-> "politics",
       keywords |-> <<<<"g","o","v","e","r","n","m","e","n","t">>, <<"e","l","e","c","t","i","o","n">>, <<"m","i","n","i","s","t","e","r">>, <<"p","a","r","l","i","a","m","e","n","t">>,
                      <<"p","r","e","s","i","d","e","n","t">>, <<"c","o","n","g","r","e","s","s">>, <<"p","a","r","t","y">>>>],
      [topic |-> "health",
       keywords |-> <<<<"v","a","c","c","i","n","e">>, <<"c","o","v","i","d">>, <<"h","e","a","l","t","h">>, <<"m","e","d","i","c","i","n","e">>, <<"d","o","c","t","o","r">>,
                      <<"h","o","s","p","i","t","a","l">>, <<"d","i","s","e","a","s","e">>>>],
      [topic |-> "technology",
       keywords |-> <<<<"a","i">>, <<"t","e","c","h","n","o","l","o","g","y">>, <<"a","p","p">>, <<"i","n","t","e","r","n","e","t">>, <<"s","o","f","t","w","a","r","e">>,
                      <<"d","i","g","i","t","a","l">>, <<"c","y","b","e","r">>>>],
      [topic |-> "finance",
       keywords |-> <<<<"m","o","n","e","y">>, <<"b","a","n","k">>, <<"e","c","o","n","o","m","y">>, <<"m","a","r","k","e","t">>, <<"s","t","o","c","k">>,
                      <<"i","n","v","e","s","t","m","e","n","t">>, <<"t","a","x">>>>],
      [topic |-> "science",
       keywords |-> <<<<"r","e","s","e","a","r","c","h">>, <<"s","t","u","d","y">>, <<"s","c","i","e","n","t","i","s","t">>, <<"c","l","i","m","a","t","e">>, <<"s","p","a","c","e">>,
                      <<"e","n","v","i","r","o","n","m","e","n","t">>>>]>>

claimSources == <<"Reuters", "AP News", "PIB India", "Fact-Check.org", "Snopes">>

\* x >= y
f64Ge(x, y) == ~f64Sub(x, y).neg

\* Math.max(lo, Math.min(hi, x)) for integers lo <= hi
f64Clamp(lo, hi, x) ==
    IF f64Ge(x, f64FromInt(hi)) THEN f64FromInt(hi)
    ELSE IF f64Ge(f64FromInt(lo), x) THEN f64FromInt(lo)
    ELSE x

\* x.toFixed(1) for 0 <= x < 1000, in tenths: the integer n with n / 10
\* nearest to the exact value of x, the larger of two equally near.
f64ToFixed1(x) ==
    LET n == IF x.e >= 0 THEN bnShl(bnMul(x.m, <<10>>), x.e)
             ELSE bnShr(bnAdd(bnMul(x.m, <<20>>), bnShl(<<1>>, -x.e)), 1 - x.e)
    IN  bnDigit(n, 1) + bnDigit(n, 2) * Limb

\* Math.random() as a Number, at position r of the stream
f64Random(r) == f64DivInt(f64FromInt(randomTimes10(r)), 1000)

\* The counts analyzeText takes from the text.
textFeatures(text) ==
    LET lower == toLowerCase(text)
        words == splitWords(text)
        sentences == splitSentences(text)
    IN  [sensationalCount     |-> countHits(sensationalWords, lower),
         emotionalCount       |-> countHits(emotionalWords, lower),
         capsWords            |-> Cardinality({i \in 1..Len(words) :
                                      words[i] = toUpperCase(words[i]) /\ Len(words[i]) > 2}),
         hasSourceAttribution |-> \E i \in 1..Len(sourceIndicators) :
                                      includes(lower, sourceIndicators[i]),
         clickbaitCount       |-> countHits(clickbaitPhrases, lower),
         wordCount            |-> Len(words),
         sentences            |-> sentences,
         topics               |-> SelectSeq(topicMap, LAMBDA t :
                                      \E i \in 1..Len(t.keywords) : includes(lower, t.keywords[i]))]

\* const capsRatio = capsWords / words.length
capsRatioOf(f) == f64DivInt(f64FromInt(f.capsWords), f.wordCount)

\* let score = 70; score -= ...; score += ...; then the jitter and the clamp.
\* The first two steps are exact in integers; the others add one term each.
scoreOf(f, r) ==
    LET terms ==
            <<f64FromInt(70 - f.sensationalCount * 8 - f.emotionalCount * 5),
              f64Sub(f64FromInt(0), f64Mul(capsRatioOf(f), f64FromInt(30))),
              f64Sub(f64FromInt(0), f64FromInt(f.clickbaitCount * 15)),
              IF f.hasSourceAttribution THEN f64FromInt(15)
              ELSE f64Sub(f64FromInt(0), f64FromInt(10)),
              IF Len(f.sentences) > 3 THEN f64FromInt(5)
              ELSE f64Sub(f64FromInt(0), f64FromInt(5)),
              IF f.wordCount > 50 THEN f64FromInt(5)
              ELSE f64Sub(f64FromInt(0), f64FromInt(5)),
              f64Sub(f64Mul(f64Random(r), f64FromInt(10)), f64FromInt(5))>>
    IN  f64Clamp(5, 98, f64Sum(terms, 7))

\* const redFlags = []; if (...) redFlags.push(...)
redFlagsOf(f) ==
    (IF f.sensationalCount > 2 THEN <<"Excessive sensational language detected">> ELSE <<>>)
    \o (IF ~f64Ge(f64DivInt(f64FromInt(1), 5), capsRatioOf(f))
        THEN <<"High proportion of ALL CAPS text">> ELSE <<>>)
    \o (IF f.clickbaitCount > 0 THEN <<"Clickbait patterns identified">> ELSE <<>>)
    \o (IF ~f.hasSourceAttribution THEN <<"No verifiable source attribution found">> ELSE <<>>)
    \o (IF f.emotionalCount > 2 THEN <<"Heavy emotional manipulation detected">> ELSE <<>>)
    \o (IF Len(f.sentences) < 3 THEN <<"Article too short for reliable analysis">> ELSE <<>>)

\* sentences.slice(0, 3).map(...): two draws for each, after the draw of the score
claimsOf(f, r) ==
    [k \in 1..min(3, Len(f.sentences)) |->
        [claim    |-> substring0(trim(f.sentences[k]), 100),
         verified |-> randomTimes10(nextRng(r, 2 * k - 1)) > 400,
         source   |-> claimSources[(randomTimes10(nextRng(r, 2 * k)) * 5) \div 1000 + 1]]]

\* The object analyzeText returns for the features f and the score; score and
\* capsRatio are the strings of toFixed(1), in tenths.
analysisOf(f, score, r) ==
    LET band == IF f64Ge(score, f64FromInt(70)) THEN 1
                ELSE IF f64Ge(score, f64FromInt(40)) THEN 2 ELSE 3
    IN  [score      |-> f64ToFixed1(score),
         label      |-> <<"Likely Authentic", "Questionable", "Likely Fake">>[band],
         labelColor |-> <<"text-terminal-green", "text-primary", "text-accent-pink">>[band],
         labelBg    |-> <<"bg-terminal-green", "bg-primary", "bg-accent-pink">>[band],
         redFlags   |-> redFlagsOf(f),
         claims     |-> claimsOf(f, r),
         topics     |-> IF Len(f.topics) > 0 THEN [i \in 1..Len(f.topics) |-> f.topics[i].topic]
                        ELSE <<"general">>,
         analysis   |-> [sensationalCount     |-> f.sensationalCount,
                         emotionalCount       |-> f.emotionalCount,
                         capsRatio            |-> f64ToFixed1(f64Mul(capsRatioOf(f), f64FromInt(100))),
                         hasSourceAttribution |-> f.hasSourceAttribution,
                         clickbaitCount       |-> f.clickbaitCount,
                         wordCount            |-> f.wordCount,
                         sentenceCount        |-> Len(f.sentences)]]

\* analyzeText(text), with r the position of Math.random()
analyzeText(text, r) ==
    valueOf(textFeatures(text), LAMBDA f :
        valueOf(scoreOf(f, r), LAMBDA score : analysisOf(f, score, r)))

\* The draws of Math.random() in analyzeText(text)
analyzeTextDraws(text) == 1 + 2 * min(3, Len(splitSentences(text)))

---------------------------------------------------------------------------
(* Inputs of analyzeText *)

\* An article of 51 words in 13 sentences that names its source.
LongReport == Join(<<<<"a","c","c","o","r","d","i","n","g"," ","t","o"," ","d","a","t","a",".">>>> \o [i \in 1..12 |-> <<"i","t"," ","r","o","s","e"," ","b","y"," ","o","n","e",".">>])

NewsWords ==
    {<<"a","c","c","o","r","d","i","n","g"," ","t","o">>, <<"t","e","r","r","i","b","l","e">>, <<"a","m","a","z","i","n","g">>, <<"N","E","W","S">>,
     <<"S","H","O","C","K","I","N","G"," ","S","E","C","R","E","T"," ","S","C","A","N","D","A","L"," ","E","X","P","O","S","E","D">>, LongReport}

NewsInputs ==
    {[fn |-> "analyzeText", text |-> Join(ws)] : ws \in SeqsUpTo(NewsWords, MaxWords)}

NewsCalls ==
    /\ clInput \in NewsInputs
    /\ clResult = NoCall
    /\ clEarlier = NoCall

\* analyzeText(clInput.text)
CallAnalyzeText ==
    /\ clInput.fn = "analyzeText"
    /\ clResult' = [called |-> TRUE, random |-> randomTimes10(rng),
                    value |-> analyzeText(clInput.text, rng)]
    /\ clEarlier' \in {clEarlier, clResult}
    /\ rng' = nextRng(rng, analyzeTextDraws(clInput.text))
    /\ UNCHANGED <<clInput, exVars, upVars, auVars, pgVars>>

---------------------------------------------------------------------------
(* FakeNewsDetector: handleAnalyze and the recent checks, in text mode *)

\* const steps = [...] of handleAnalyze
newsSteps ==
    <<"Preprocessing text...", "Running BERT tokenizer...", "Extracting linguistic features...",
      "Checking source credibility...", "Cross-referencing fact database...",
      "Computing authenticity score...">>

\* What the text area holds when the form is submitted.
NewsContents == {<<"a","c","c","o","r","d","i","n","g"," ","t","o"," ","t","e","r","r","i","b","l","e">>, LongReport, Space \o Space}

NoAnalysis == [pc |-> 0, content |-> <<>>]

\* useState(null)
NullResult == [label |-> "null"]

\* A variant that keeps every entry: [entry, ...prev].
withCheckKeepingAll(entry, prev) == <<entry>> \o prev

\* [entry, ...prev].slice(0, 5)
withCheck(entry, prev) == SubSeq(<<entry>> \o prev, 1, min(5, Len(prev) + 1))

\* { text: content.substring(0, 50), score, label, time }
checkEntry(content, a, now) ==
    [text |-> substring0(content, 50), score |-> a.score, label |-> a.label, time |-> now]

\* The colour RECENT CHECKS gives an entry, from parseFloat(c.score).
checkColor(c) ==
    IF c.score >= 700 THEN "text-terminal-green"
    ELSE IF c.score >= 400 THEN "text-primary" ELSE "text-accent-pink"

InitNews ==
    /\ recentChecks = <<>>
    /\ newsResult = NullResult
    /\ newsLoading = FALSE
    /\ newsStep = ""
    /\ analyzing = NoAnalysis
    /\ completed = <<>>

\* handleAnalyze up to the timer of its first step. The submit button is
\* disabled while loading, so one call runs at a time.
handleAnalyze(content) ==
    /\ ~newsLoading
    /\ Len(completed) < MaxAnalyses
    /\ trim(content) # <<>>
    /\ newsLoading' = TRUE
    /\ newsResult' = NullResult
    /\ newsStep' = newsSteps[1]
    /\ analyzing' = [pc |-> 1, content |-> content]
    /\ rng' = nextRng(rng, 1)
    /\ UNCHANGED <<recentChecks, completed, clVars, exVars, upVars, auVars, chVars, tkVars>>

\* The timer of a step but the last fires: the next step and its timer.
newsStepTimer ==
    /\ analyzing.pc \in 1..(Len(newsSteps) - 1)
    /\ analyzing' = [analyzing EXCEPT !.pc = @ + 1]
    /\ newsStep' = newsSteps[analyzing.pc + 1]
    /\ rng' = nextRng(rng, 1)
    /\ UNCHANGED <<recentChecks, newsResult, newsLoading, completed,
                   clVars, exVars, upVars, auVars, chVars, tkVars>>

\* The timer of the last step fires: the text is analysed and the check is
\* put at the head of the recent ones.
analysisDone ==
    /\ analyzing.pc = Len(newsSteps)
    /\ \E a \in {analyzeText(analyzing.content, rng)} :
           /\ newsResult' = a
           /\ recentChecks' = withCheck(checkEntry(analyzing.content, a, clock), recentChecks)
           /\ completed' = Append(completed, checkEntry(analyzing.content, a, clock))
    /\ clock' = clock + 1
    /\ rng' = nextRng(rng, analyzeTextDraws(analyzing.content))
    /\ newsLoading' = FALSE
    /\ newsStep' = ""
    /\ analyzing' = NoAnalysis
    /\ UNCHANGED <<user, authLoading, localStorage, location, shown, lastCall,
                   clVars, exVars, upVars, chVars, tkVars>>

\* The pages other than the one under study are as they mount.
PagesMounted == InitChat /\ InitTickets /\ InitNews


---------------------------------------------------------------------------
(* Specifications *)

InitClassify ==
    /\ InitCalls
    /\ \E seed \in RngStates : Rendered(<<>>, seed)
    /\ SignedIn(IF clInput.fn = "classifyTicket" THEN "/citizen/support-tickets"
                ELSE "/citizen/expense-categorizer")
    /\ PagesMounted
NextClassify == CallClassifyTicket \/ CallCategorizeExpense
SpecClassify == InitClassify /\ [][NextClassify]_vars

InitExpense ==
    /\ IdleCalls
    /\ \E exps \in InitialBatches, seed \in RngStates : Rendered(exps, seed)
    /\ SignedIn("/citizen/expense-categorizer")
    /\ PagesMounted
NextExpense == (\E entry \in ManualEntries : handleManualAdd(entry)) \/ Recompute
SpecExpense == InitExpense /\ [][NextExpense]_vars

InitOrder ==
    /\ IdleCalls
    /\ \E seed \in RngStates : Rendered(<<>>, seed)
    /\ SignedIn("/citizen/expense-categorizer")
    /\ PagesMounted
NextOrder == (\E entry \in OrderEntries : handleManualAdd(entry)) \/ Recompute
SpecOrder == InitOrder /\ [][NextOrder]_vars

InitUpload == InitOrder
NextUpload ==
    \/ \E file \in CsvFiles : handleFileUpload(file)
    \/ \E i \in DOMAIN uploads : stepTimer(i)
    \/ \E i \in DOMAIN uploads : fileText(i)
    \/ \E entry \in UploadEntries : handleManualAdd(entry)
SpecUpload == InitUpload /\ [][NextUpload]_vars

\* The component of the expense page is not on screen while the session is
\* studied: its state is that of a mount.
InitSession == IdleCalls /\ Rendered(<<>>, 0) /\ InitAuth /\ PagesMounted
NextSession ==
    \/ \E loc \in Locations : LoadPage(loc) \/ FollowLink(loc)
    \/ MountEffect
    \/ RouteEffect
    \/ \E username \in Usernames, isLogin \in BOOLEAN : handleSubmit(username, isLogin)
    \/ handleLogout
SpecSession == InitSession /\ [][NextSession]_vars

\* RAGChatbot on screen.  callBackend settles: fetch resolves or rejects,
\* at the latest when the connection times out.
InitChatbot ==
    /\ IdleCalls
    /\ Rendered(<<>>, 0)
    /\ SignedIn("/citizen/chatbot")
    /\ PagesMounted
callBackendSettles ==
    \E i \in DOMAIN sends :
        \/ \E result \in BackendResults : callBackendResolves(i, result)
        \/ callBackendRejects(i)
NextChatbot ==
    \/ \E text \in Queries : onChange(text)
    \/ handleSend
    \/ \E i \in DOMAIN sends, result \in BackendResults : callBackendResolves(i, result)
    \/ \E i \in DOMAIN sends : callBackendRejects(i)
    \/ resetTimer
SpecChatbot == InitChatbot /\ [][NextChatbot]_vars /\ WF_vars(callBackendSettles)

\* SupportTickets on screen.
InitTicketsPage ==
    /\ IdleCalls
    /\ \E seed \in RngStates : Rendered(<<>>, seed)
    /\ SignedIn("/citizen/support-tickets")
    /\ PagesMounted
NextTickets ==
    \/ \E form \in TicketForms : handleSubmitTicket(form)
    \/ ticketStepTimer
    \/ ticketFiled
SpecTickets == InitTicketsPage /\ [][NextTickets]_vars

\* analyzeText called on one text, again and again.
InitAnalyze ==
    /\ NewsCalls
    /\ \E seed \in RngStates : Rendered(<<>>, seed)
    /\ SignedIn("/citizen/fake-news")
    /\ PagesMounted
NextAnalyze == CallAnalyzeText
SpecAnalyze == InitAnalyze /\ [][NextAnalyze]_vars

\* FakeNewsDetector on screen.
InitNewsPage ==
    /\ IdleCalls
    /\ \E seed \in RngStates : Rendered(<<>>, seed)
    /\ SignedIn("/citizen/fake-news")
    /\ PagesMounted
NextNews ==
    \/ \E content \in NewsContents : handleAnalyze(content)
    \/ newsStepTimer
    \/ analysisDone
SpecNews == InitNewsPage /\ [][NextNews]_vars
---------------------------------------------------------------------------
(* Properties of the classifiers, checked under SpecClassify *)

AllInputs == TicketInputs \cup ExpenseInputs

TaxonomyOf(inp) ==
    IF inp.fn = "classifyTicket" THEN categories ELSE categoryKeywords

FallbackOf(inp) == IF inp.fn = "classifyTicket" THEN "General" ELSE "Other"

LoweredText(inp) ==
    IF inp.fn = "classifyTicket" THEN ticketText(inp.subject, inp.description)
    ELSE toLowerCase(inp.description)

\* The raw score of every category of the taxonomy on every input.
RawScores[inp \in AllInputs] ==
    [i \in 1..Len(TaxonomyOf(inp)) |->
        countHits(TaxonomyOf(inp)[i].keywords, LoweredText(inp))]

TopScore[inp \in AllInputs] ==
    CHOOSE s \in 0..Len(LoweredText(inp)) :
        /\ \A i \in DOMAIN RawScores[inp] : RawScores[inp][i] <= s
        /\ s = 0 \/ \E i \in DOMAIN RawScores[inp] : RawScores[inp][i] = s

\* The categories that reach the highest raw score on inp.
Leaders(inp) == {i \in DOMAIN RawScores[inp] : RawScores[inp][i] = TopScore[inp]}

Earliest(S) == CHOOSE i \in S : \A j \in S : i <= j

GasExpense == [fn |-> "categorizeExpense", description |-> <<"g","a","s">>]

\* C1: when two or more categories reach the same highest positive raw
\* score, the classifier returns the one declared earliest in its taxonomy,
\* whatever Math.random() draws; an expense whose only hit is 'gas' is
\* 'Transportation', not 'Utilities'.
C1_TieBreakEarliest ==
    clResult.called =>
        /\ (TopScore[clInput] > 0 /\ Cardinality(Leaders(clInput)) >= 2) =>
              clResult.value.category =
                  TaxonomyOf(clInput)[Earliest(Leaders(clInput))].category
        /\ clInput = GasExpense => clResult.value.category = "Transportation"

C1_Witness ==
    /\ clResult.called
    /\ clInput = GasExpense
    /\ Cardinality(Leaders(clInput)) >= 2
    /\ clResult.value.category = "Transportation"

\* C2: the classifier returns its fallback category ('General' for tickets,
\* 'Other' for expenses) exactly when no keyword of any category occurs in
\* the text.
C2_FallbackIffNoHit ==
    clResult.called =>
        (clResult.value.category = FallbackOf(clInput) <=> TopScore[clInput] = 0)

C2_Witness ==
    /\ clResult.called
    /\ clInput.fn = "classifyTicket"
    /\ clInput.description # <<>>
    /\ TopScore[clInput] = 0
    /\ clResult.value.category = "General"

Distance(a, b) == IF a < b THEN b - a ELSE a - b

C4_ConfidenceBounds ==
    clResult.called =>
        /\ clInput.fn = "classifyTicket" =>
              (600 <= clResult.value.confidence /\ clResult.value.confidence <= 950)
        /\ clInput.fn = "categorizeExpense" =>
              (500 <= clResult.value.confidence /\ clResult.value.confidence <= 950)

\* A ticket with more than three hits, whose unclamped confidence passes 100.
C4_Witness ==
    /\ clResult.called
    /\ clInput.fn = "classifyTicket"
    /\ TopScore[clInput] >= 4
    /\ clResult.value.confidence = 950

InputsOf(fn) == {inp \in AllInputs : inp.fn = fn}

ResultOn(inp, r) ==
    IF inp.fn = "classifyTicket" THEN classifyTicketOn(inp, r)
    ELSE categorizeExpenseOn(inp, r)

\* No raw score exceeds the length of the longest keyword list.
ScoreRange ==
    0..(CHOOSE m \in 0..Len(categoryKeywords[1].keywords) :
           /\ \A i \in DOMAIN categories : Len(categories[i].keywords) <= m
           /\ \A i \in DOMAIN categoryKeywords : Len(categoryKeywords[i].keywords) <= m
           /\ \E i \in DOMAIN categoryKeywords : Len(categoryKeywords[i].keywords) = m)

\* Every confidence a classifier returns on an input of winning raw score s.
ConfidencesAt[fn \in {"classifyTicket", "categorizeExpense"}, s \in ScoreRange] ==
    {ResultOn(inp, r).confidence :
        inp \in {i \in InputsOf(fn) : TopScore[i] = s}, r \in RngStates}

\* C5: of two classifications by the same classifier, the one with the
\* strictly smaller winning raw score never has the greater confidence,
\* whatever Math.random() draws in either; a fallback result (score 0) is
\* strictly below every non-fallback result.
C5_ConfidenceMonotone ==
    clResult.called =>
        \A s \in ScoreRange :
            s > TopScore[clInput] =>
                \A c \in ConfidencesAt[clInput.fn, s] :
                    /\ clResult.value.confidence <= c
                    /\ TopScore[clInput] = 0 => clResult.value.confidence < c

\* A fallback result that drew the largest jitter, with scored inputs to
\* compare it with.
C5_Witness ==
    /\ clResult.called
    /\ clInput.fn = "categorizeExpense"
    /\ TopScore[clInput] = 0
    /\ clResult.value.confidence = 600
    /\ ConfidencesAt[clInput.fn, 1] # {}
    /\ ConfidencesAt[clInput.fn, 2] # {}

---------------------------------------------------------------------------
(* Properties of the anomalies of ExpenseCategorizer, checked under SpecExpense *)

\* The positions of cz whose expense has category c.
Group(cz, c) == {j \in DOMAIN cz : cz[j].category = c}

RECURSIVE SumAmount(_, _)
SumAmount(cz, S) ==
    IF S = {} THEN 0
    ELSE LET j == CHOOSE x \in S : TRUE
         IN  cz[j].amount + SumAmount(cz, S \ {j})

RECURSIVE SumSquare(_, _)
SumSquare(cz, S) ==
    IF S = {} THEN 0
    ELSE LET j == CHOOSE x \in S : TRUE
         IN  cz[j].amount * cz[j].amount + SumSquare(cz, S \ {j})

\* The outlier rule on the group of e, with n members, s1 the sum of their
\* amounts and s2 the sum of their squares: mean = s1 / n and the population
\* variance is s2 / n - mean ^ 2, so n^2 * variance = n * s2 - s1^2 and
\* |e.amount - mean| > 2 * std is (n * e.amount - s1)^2 > 4 * (n * s2 - s1^2).
OutlierRule(cz, e) ==
    LET G  == Group(cz, e.category)
        n  == Cardinality(G)
        s1 == SumAmount(cz, G)
        s2 == SumSquare(cz, G)
    IN  /\ n >= 2
        /\ n * s2 - s1 * s1 > 0
        /\ (n * e.amount - s1) * (n * e.amount - s1) > 4 * (n * s2 - s1 * s1)

\* C6: anomalies holds exactly the categorized expenses whose category group
\* (over the whole current batch) has at least 2 members, a population
\* standard deviation > 0, and whose amount is more than 2 standard
\* deviations from the group mean.
C6_OutlierRule ==
    anomalies = SelectSeq(categorized, LAMBDA e : OutlierRule(categorized, e))

\* One expense flagged beside five of its group that are not.
C6_Witness ==
    /\ Len(anomalies) = 1
    /\ Cardinality(Group(categorized, anomalies[1].category)) = 6

InAnomalies(e) == \E k \in DOMAIN anomalies : anomalies[k] = e

\* C7: an expense that is the only member of its category group is never
\* flagged, whatever its amount and whatever the other groups hold.
C7_SingletonNeverFlagged ==
    \A i \in DOMAIN categorized :
        Cardinality(Group(categorized, categorized[i].category)) = 1 =>
            ~InAnomalies(categorized[i])

\* A lone expense of 950 beside a group in which an expense is flagged.
C7_Witness ==
    /\ anomalies # <<>>
    /\ \E i \in DOMAIN categorized :
          /\ Cardinality(Group(categorized, categorized[i].category)) = 1
          /\ categorized[i].amount = 950

AllEqual(cz, G) == \A i \in G, j \in G : cz[i].amount = cz[j].amount

\* C8: in a category group whose amounts are all equal, no expense is
\* flagged, whatever the size of the group.
C8_ZeroSpreadNeverFlagged ==
    \A i \in DOMAIN categorized :
        AllEqual(categorized, Group(categorized, categorized[i].category)) =>
            ~InAnomalies(categorized[i])

\* A group of three equal amounts beside a group with spread.
C8_Witness ==
    \E i \in DOMAIN categorized, j \in DOMAIN categorized :
        /\ Cardinality(Group(categorized, categorized[i].category)) >= 3
        /\ AllEqual(categorized, Group(categorized, categorized[i].category))
        /\ ~AllEqual(categorized, Group(categorized, categorized[j].category))

\* The multipliers tried: kNum / kDen.
Multipliers == {<<kNum, kDen>> : kNum \in 1..MaxK, kDen \in {1, 2}}

Smaller(k1, k2) == k1[1] * k2[2] < k2[1] * k1[2]

\* The batch is the worked example: one category, amounts 100, 105, 98, 950.
IsExample ==
    /\ Len(categorized) = 4
    /\ \A i \in 1..4 : categorized[i].amount = <<100, 105, 98, 950>>[i]
    /\ \A i \in 1..4 : categorized[i].category = categorized[1].category

\* The expenses of cz that differ in category or amount.
Kinds(cz) == {<<cz[i].category, cz[i].amount>> : i \in DOMAIN cz}

\* C9: in the group [100, 105, 98, 950] the value 950 is not flagged with
\* the multiplier 2 of the code but is flagged with multiplier 1; and an
\* expense flagged with a multiplier is flagged with every smaller one.
C9_ThresholdMonotone ==
    LET stats == categoryStats(categorized)
        deviation(kind) ==
            groupDeviation([category |-> kind[1], amount |-> kind[2]], stats)
    IN  /\ IsExample =>
              /\ ~InAnomalies(categorized[4])
              /\ exceedsK(deviation(<<categorized[4].category, 950>>), 1, 1)
        /\ \A kind \in Kinds(categorized) :
              LET d == deviation(kind)
              IN  /\ \A k1 \in Multipliers, k2 \in Multipliers :
                        (Smaller(k1, k2) /\ exceedsK(d, k2[1], k2[2]))
                            => exceedsK(d, k1[1], k1[2])
                  /\ \A k \in Multipliers :
                        (Smaller(k, <<2, 1>>)
                            /\ \E i \in DOMAIN anomalies :
                                   <<anomalies[i].category, anomalies[i].amount>> = kind)
                            => exceedsK(d, k[1], k[2])

C9_Witness ==
    /\ IsExample
    /\ exLastOp = "recompute"
    /\ anomalies = <<>>

\* An anomalies list without the confidences of its expenses.
Flagged(an) ==
    [k \in DOMAIN an |-> [description |-> an[k].description,
                          amount      |-> an[k].amount,
                          date        |-> an[k].date,
                          category    |-> an[k].category]]

\* C10: recomputing categorized and anomalies over an unchanged expenses
\* list flags the same expenses, although every confidence is drawn afresh.
C10_FlagsIdempotent ==
    [][expenses' = expenses => Flagged(anomalies') = Flagged(anomalies)]_vars

\* A recomputation that left an expense flagged.
C10_Witness ==
    /\ exLastOp = "recompute"
    /\ anomalies # <<>>


---------------------------------------------------------------------------
(* More properties of the classifiers, checked under SpecClassify *)

\* The confidences a 'General' result can have.
FallbackConfidences == {ticketConfidence(0, r) : r \in RngStates}

\* C13: the ticket 'Road Pothole Complaint' / 'large pothole on MG Road
\* damaged vehicles, urgent repair needed' is classified 'Infrastructure',
\* with the priority configured for it, 'high', and with a confidence above
\* every confidence of a 'General' result, whatever Math.random() draws.
C13_ExampleTicket ==
    (clResult.called /\ clInput = ExampleTicket) =>
        /\ clResult.value.category = "Infrastructure"
        /\ clResult.value.priority = "high"
        /\ \E i \in DOMAIN categories :
              /\ categories[i].category = "Infrastructure"
              /\ categories[i].priority = clResult.value.priority
        /\ \A c \in FallbackConfidences : clResult.value.confidence > c

\* The example classified twice, with the largest and another draw.
C13_Witness ==
    /\ clInput = ExampleTicket
    /\ clResult.called /\ clResult.random = 999
    /\ clEarlier.called /\ clEarlier.random # 999

\* The text the classifier searches is empty or made of blanks.
BlankInput(inp) == isBlank(LoweredText(inp))

\* The confidence of a result without jitter and without hits, in tenths.
FloorOf(inp) == IF inp.fn = "classifyTicket" THEN 600 ELSE 500

\* C14 as stated: a text that is empty or made of blanks gets the fallback
\* category with exactly the lowest confidence.
C14_BlankAtFloor ==
    (clResult.called /\ BlankInput(clInput)) =>
        /\ clResult.value.category = FallbackOf(clInput)
        /\ clResult.value.confidence = FloorOf(clInput)

\* C14, amended: a text that is empty or made of blanks gets the fallback
\* category with a confidence from the floor to 10 points above it, the
\* floor itself exactly when Math.random() * 10 is below 0.05.
C14_BlankNearFloor ==
    (clResult.called /\ BlankInput(clInput)) =>
        /\ clResult.value.category = FallbackOf(clInput)
        /\ clResult.value.confidence >= FloorOf(clInput)
        /\ clResult.value.confidence <= FloorOf(clInput) + 100
        /\ clResult.value.confidence = FloorOf(clInput) <=> clResult.random < 5

\* An expense of blanks only, categorized with the largest jitter.
C14_Witness ==
    /\ clResult.called
    /\ clInput.fn = "categorizeExpense"
    /\ clInput.description # <<>>
    /\ BlankInput(clInput)
    /\ clResult.value.confidence = 600

\* The category the classifier selects for inp written in capitals.
CategoryInCapitals(inp) ==
    IF inp.fn = "classifyTicket"
    THEN ticketAnalysis(toUpperCase(inp.subject), toUpperCase(inp.description)).best.category
    ELSE expenseAnalysis(toUpperCase(inp.description)).category

\* The keywords of a list that occur in text, as a set.
DistinctHits(keywords, text) ==
    {k \in {keywords[i] : i \in DOMAIN keywords} : includes(text, k)}

\* C19: the score of every category is the number of its distinct keywords
\* that occur in the lower-cased text, at most the number of its keywords;
\* the result is the category and the confidence of the highest such score;
\* and the same text in capitals is given the same category.
C19_RawScore ==
    clResult.called =>
        /\ \A i \in DOMAIN TaxonomyOf(clInput) :
              LET hits == DistinctHits(TaxonomyOf(clInput)[i].keywords, LoweredText(clInput))
              IN  /\ RawScores[clInput][i] = Cardinality(hits)
                  /\ Cardinality(hits) <= Len(TaxonomyOf(clInput)[i].keywords)
        /\ clResult.value.confidence
              = ResultOn(clInput, CHOOSE r \in RngStates : randomTimes10(r) = clResult.random).confidence
        /\ CategoryInCapitals(clInput) = clResult.value.category

\* The priorities of the ticket categories.
Priorities == {"low", "medium", "high", "critical"}

\* C20: priority and department of a ticket result are those configured
\* for its category; the priority is one of low, medium, high, critical
\* and is 'low' exactly for 'General'.
C20_AttributeCopy ==
    (clResult.called /\ clInput.fn = "classifyTicket") =>
        /\ \A i \in DOMAIN categories :
              categories[i].category = clResult.value.category =>
                  /\ clResult.value.priority = categories[i].priority
                  /\ clResult.value.department = categories[i].dept
        /\ \E i \in DOMAIN categories : categories[i].category = clResult.value.category
        /\ clResult.value.priority \in Priorities
        /\ clResult.value.priority = "low" <=> clResult.value.category = "General"

\* A ticket of negative sentiment in a category of priority high.
C20_Witness ==
    /\ clResult.called
    /\ clInput = ExampleTicket
    /\ clResult.value.sentiment = "Negative"
    /\ clResult.value.priority = "high"
    /\ clResult.value.department = "Public Works"

---------------------------------------------------------------------------
(* Properties of the anomalies list, checked under SpecOrder *)

\* exps with the expenses at positions i and j exchanged
Swapped(exps, i, j) ==
    [k \in 1..Len(exps) |->
        IF k = i THEN exps[j] ELSE IF k = j THEN exps[i] ELSE exps[k]]

\* The expenses of an anomalies list, as a set.
FlaggedSet(an) == {Flagged(an)[k] : k \in DOMAIN an}

\* C11: exchanging two expenses of the list leaves the set of flagged
\* expenses as it is: whether an expense is flagged does not depend on the
\* order of the list.
C11_OrderIndependent ==
    \A i \in DOMAIN expenses, j \in DOMAIN expenses :
        FlaggedSet(anomaliesOf(categorize(Swapped(expenses, i, j), rng)))
            = FlaggedSet(anomalies)

\* C12 as stated: anomalies has one entry per expense of the batch.
C12_OneFlagPerRecord == Len(anomalies) = Len(categorized)

\* C12, amended: anomalies is the batch with the unflagged expenses removed,
\* the flagged ones in the order of the batch, and it is shorter than every
\* batch that is not empty.
C12_FlaggedSublist ==
    /\ anomalies = SelectSeq(categorized, LAMBDA e : InAnomalies(e))
    /\ categorized # <<>> => Len(anomalies) < Len(categorized)

C12_Witness ==
    /\ Len(categorized) >= 6
    /\ anomalies # <<>>
    /\ Len(anomalies) < Len(categorized)

\* C23: an expense that is flagged is in a category group of at least 6
\* members: no group of fewer than 6 has a flagged member, whatever the
\* amounts.
C23_SmallGroupsNeverFlag ==
    \A i \in DOMAIN categorized :
        InAnomalies(categorized[i]) =>
            Cardinality(Group(categorized, categorized[i].category)) >= 6

---------------------------------------------------------------------------
(* Properties of the session and the routes, checked under SpecSession *)

\* C16: the page of a protected route is on screen only when loading has
\* finished, a user is signed in and the user's role is the role the route
\* requires; without a user the route renders the redirection to /login;
\* and no government user is shown a citizen page, no citizen a government
\* page.
C16_RouteProtection ==
    \A route \in ProtectedRoutes :
        /\ shown = Page(route.path) =>
              /\ ~authLoading
              /\ user # NoUser
              /\ user.role = route.requireRole
        /\ (location.pathname = route.path /\ ~authLoading /\ user = NoUser) =>
              /\ shown = Navigate("/login")
              /\ routeEffect(shown, user) = "/login"
        /\ (shown = Page(route.path) /\ user # NoUser) =>
              /\ user.role = "government" => route.requireRole # "citizen"
              /\ user.role = "citizen" => route.requireRole # "government"

\* A government page on screen for a user who signed up for that portal.
C16_Witness ==
    /\ shown = Page("/government/traffic-violations")
    /\ lastCall.op = "signup"
    /\ user # NoUser
    /\ user.role = "government"

\* The keys of localStorage that logout removes.
SessionKeys == {"user_id", "user_role", "session_id", "username", "login_role"}

\* C17: once AuthProvider has mounted, a user is signed in exactly when the
\* latest call of login, signup and logout was a login or a signup, and the
\* user has the id, role and username that call stored; after a logout
\* none of the five keys is left in localStorage.
C17_SessionRoundTrip ==
    /\ ~authLoading =>
          /\ user # NoUser <=> lastCall.op \in {"login", "signup"}
          /\ user = lastCall.user
    /\ lastCall.op = "logout" => DOMAIN localStorage \cap SessionKeys = {}

\* The page was loaded anew after a login, and the session restored.
C17_Witness ==
    /\ ~authLoading
    /\ lastCall.reloaded
    /\ lastCall.op = "login"
    /\ user # NoUser
    /\ user.username = "asha"

---------------------------------------------------------------------------
(* Properties of the upload, checked under SpecUpload *)

\* C18: loading is true whenever a call of handleFileUpload has started and
\* has not yet appended its rows.
C18_LoadingCoversUpload ==
    (\E i \in DOMAIN uploads : uploads[i].pc <= Len(steps) + 1) => loading

---------------------------------------------------------------------------
(* Redirections, checked under SpecSession *)

\* Following the redirections from pathname, a page that navigates no
\* further is on screen after at most n of them.
RECURSIVE Lands(_, _, _)
Lands(pathname, usr, n) ==
    LET element == AppRoutes(pathname, usr, FALSE)
        to      == routeEffect(element, usr)
    IN  IF to = "" THEN element.kind = "page"
        ELSE n > 0 /\ Lands(to, usr, n - 1)

\* C24: for the user signed in, whatever the role, no protected route
\* renders a redirection to its own path, and the redirections from every
\* protected route end at a page after at most as many steps as there are
\* routes.
C24_NoRedirectCycle ==
    (~authLoading /\ user # NoUser) =>
        \A route \in ProtectedRoutes :
            /\ ProtectedRoute(route.requireRole, route.path, user, FALSE)
                  # Navigate(route.path)
            /\ Lands(route.path, user, Cardinality(ProtectedRoutes) + 2)

---------------------------------------------------------------------------
(* The expenses list under uploads and manual adds, checked under SpecUpload *)

\* The calls of handleFileUpload that append their rows in this step.
Appending == {i \in DOMAIN uploads : uploads'[i].pc > Len(steps) + 1
                                     /\ uploads[i].pc <= Len(steps) + 1}

\* C26: in every step the expenses there were stay, in their places and
\* with their categories; a call of handleFileUpload that ends appends
\* the rows parsed from its file, each once and nothing else; a manual add
\* (the one step that leaves the calls of handleFileUpload as they are)
\* appends its one entry; and no other step changes the list.
C26_NoLostExpenses ==
    [][LET added == SubSeq(expenses', Len(expenses) + 1, Len(expenses'))
       IN  /\ Len(expenses') >= Len(expenses)
           /\ SubSeq(expenses', 1, Len(expenses)) = expenses
           /\ Len(categorized') = Len(expenses')
           /\ \A k \in DOMAIN expenses :
                 /\ categorized'[k].category = categorized[k].category
                 /\ categorized'[k].description = expenses[k].description
                 /\ categorized'[k].amount = expenses[k].amount
           /\ Cardinality(Appending) <= 1
           /\ \A i \in Appending : added = parseCSV(uploads[i].file)
           /\ uploads' = uploads =>
                 \E entry \in UploadEntries :
                     added = <<[description |-> entry.manualDesc,
                                amount      |-> entry.manualAmount,
                                date        |-> Today]>>
           /\ (uploads' # uploads /\ Appending = {}) => added = <<>>]_vars

\* Two uploads overlapped and an entry was added by hand meanwhile: the
\* second upload ended first, then came the manual entry, then the rows of
\* the first upload.
C26_Witness ==
    /\ Len(uploads) = 2
    /\ \A i \in DOMAIN uploads : uploads[i].pc > Len(steps) + 1
    /\ \E entry \in UploadEntries :
          expenses = parseCSV(uploads[2].file)
                        \o <<[description |-> entry.manualDesc,
                              amount      |-> entry.manualAmount,
                              date        |-> Today]>>
                        \o parseCSV(uploads[1].file)
    /\ Len(parseCSV(uploads[1].file)) = 2
    /\ Len(parseCSV(uploads[2].file)) = 1

---------------------------------------------------------------------------
(* The sentiment of a ticket, checked under SpecClassify *)

\* The words of a lexicon that occur in the lower-cased text of a ticket.
LexiconWordsIn(words, inp) ==
    {words[i] : i \in {j \in DOMAIN words :
                          includes(toLowerCase(inp.subject \o Space \o inp.description), words[j])}}

\* C21: the sentiment of a ticket result is Positive when more positive
\* than negative lexicon words occur in the text, Negative when more
\* negative than positive ones do, Neutral when as many of each do; the
\* random draw and the category of the result have no part in it.
C21_SentimentByCounts ==
    (clResult.called /\ clInput.fn = "classifyTicket") =>
        LET pos == Cardinality(LexiconWordsIn(sentimentWords.positive, clInput))
            neg == Cardinality(LexiconWordsIn(sentimentWords.negative, clInput))
        IN  /\ pos > neg => clResult.value.sentiment = "Positive"
            /\ neg > pos => clResult.value.sentiment = "Negative"
            /\ pos = neg => clResult.value.sentiment = "Neutral"
            /\ \A r \in RngStates :
                  classifyTicketOn(clInput, r).sentiment = clResult.value.sentiment

\* A ticket with one positive and one negative word in a category other
\* than General: the counts are equal and not zero.
C21_Witness ==
    /\ clResult.called
    /\ clInput.fn = "classifyTicket"
    /\ clInput.subject = <<"T","h","a","n","k"," ","y","o","u">>
    /\ clInput.description = <<"u","r","g","e","n","t"," ","r","o","a","d">>
    /\ clResult.value.sentiment = "Neutral"
    /\ clResult.value.category = "Infrastructure"

---------------------------------------------------------------------------
(* Properties of the chatbot, checked under SpecChatbot *)

\* The calls of handleSend whose request is in flight.
InFlight == {i \in DOMAIN sends : sends[i].pc = "await"}

\* The query of call k is message 2k (counting the welcome as message 1),
\* its reply, once the call has settled, message 2k + 1, and there are no
\* other messages; at most one request is in flight, and loading is true
\* exactly while one is.
ChatOneReplyEach ==
    /\ Cardinality(InFlight) <= 1
    /\ chatLoading <=> InFlight # {}
    /\ Len(messages) = 1 + Len(sends) + Cardinality(DOMAIN sends \ InFlight)
    /\ messages[1] = WelcomeMessage
    /\ \A k \in DOMAIN sends :
          /\ messages[2 * k].role = "user"
          /\ messages[2 * k].text = sends[k].query
          /\ sends[k].query # <<>>
          /\ k \notin InFlight => messages[2 * k + 1].role = "assistant"

\* The messages there were are still there, in their places.
ChatOnlyGrows ==
    /\ Len(messages') >= Len(messages)
    /\ SubSeq(messages', 1, Len(messages)) = messages

\* A query whose request is in flight is answered, and loading is then
\* false.
ChatEveryQueryAnswered ==
    \A k \in 1..MaxSends :
        (k \in InFlight) ~>
            (/\ Len(messages) = 2 * k + 1
             /\ messages[2 * k + 1].role = "assistant"
             /\ sends[k].pc = "done"
             /\ ~chatLoading)

\* The reply to a rejected call is the fallback text with aiPowered false.
ChatFallbackOnFailure ==
    \A k \in DOMAIN sends \ InFlight :
        sends[k].settled = "rejected" =>
            /\ messages[2 * k + 1].text = fallbackText
            /\ ~messages[2 * k + 1].aiPowered

C25_StatusTracksRequest ==
    /\ [](InFlight # {} => aiStatus = "PROCESSING")
    /\ [][(/\ resetTimers # <<>>
           /\ resetTimers' = Tail(resetTimers)
           /\ aiStatus = "FALLBACK")
              => Head(resetTimers) >= statusFrom]_vars
---------------------------------------------------------------------------
(* SupportTickets *)

TicketIdsDistinct ==
    \A i, j \in DOMAIN tickets : i # j => tickets[i].id # tickets[j].id

TicketsNewestFirst ==
    \A i, j \in DOMAIN tickets : i < j => tickets[i].created_at > tickets[j].created_at

TicketsOpen == \A i \in DOMAIN tickets : tickets[i].status = "Open"

\* C27: whatever tickets have been submitted, no two tickets of the list have
\* the same id, the list is ordered newest first, and every ticket is Open.
C27_TicketIdentity == TicketIdsDistinct /\ TicketsNewestFirst /\ TicketsOpen

---------------------------------------------------------------------------
(* FakeNewsDetector *)

\* The result of the latest call of analyzeText.
Analyzed == clInput.fn = "analyzeText" /\ clResult.called

ScoreInRange == Analyzed => clResult.value.score >= 50 /\ clResult.value.score <= 980

\* The label that goes with a reported score, in tenths.
labelOfReported(score) ==
    IF score >= 700 THEN "Likely Authentic"
    ELSE IF score >= 400 THEN "Questionable" ELSE "Likely Fake"

\* C28: the score of every result of analyzeText lies in [5, 98]; the label is
\* Likely Authentic exactly when the reported score is at least 70,
\* Questionable exactly when it is at least 40 and below 70, and Likely Fake
\* otherwise; so the colour the recent checks take from the stored score is
\* the colour of the label stored with it.
C28_ScoreLabelColourAgree ==
    Analyzed =>
        /\ clResult.value.score >= 50 /\ clResult.value.score <= 980
        /\ clResult.value.label = labelOfReported(clResult.value.score)
        /\ checkColor(checkEntry(clInput.text, clResult.value, clock)) = clResult.value.labelColor

\* The latest min(n, 5) of the n checks made, the newest first.
LatestChecks ==
    [i \in 1..min(5, Len(completed)) |-> completed[Len(completed) + 1 - i]]

\* A check of the list is no longer in it after the step.
Dropped(i) == \A j \in DOMAIN recentChecks' : recentChecks'[j] # recentChecks[i]

\* C29: whatever analyses have been made, recentChecks holds at most 5
\* entries, the min(n, 5) latest of the n analyses completed with the newest
\* first; an entry leaves the list only when it is the oldest of five and a
\* newer one arrives.
C29_RecentChecksBounded ==
    /\ [](Len(recentChecks) <= 5 /\ recentChecks = LatestChecks)
    /\ [][\A i \in DOMAIN recentChecks :
              Dropped(i) => /\ i = 5
                            /\ Len(completed') = Len(completed) + 1
                            /\ recentChecks'[1] = completed'[Len(completed')]]_vars

\* Six analyses are done: the first has left the list, the second is last.
C29_Witness ==
    /\ Len(completed) = 6
    /\ Len(recentChecks) = 5
    /\ recentChecks[5] = completed[2]
    /\ recentChecks[1] = completed[6]
    /\ \A i \in DOMAIN recentChecks : recentChecks[i] # completed[1]
    /\ \E i \in DOMAIN recentChecks : Len(recentChecks[i].text) = 50

===========================================================================
